---------------------------- MODULE Spec2Model ----------------------------
(***************************************************************************)
(* A model of quiffen, a parser and serialiser for QIF files.              *)
(*                                                                         *)
(*   Part 1  the Category tree of quiffen/core/category.py                 *)
(*           (set_parent, add_child, set_children, remove_child, merge,    *)
(*           add_categories_to_container)                                  *)
(*   Part 2  split validation of quiffen/core/transaction.py               *)
(*   Part 3  Qif.parse / Qif.to_qif of quiffen/core/qif.py and the record  *)
(*           classes it uses (accounts.py, categories_classes.py,          *)
(*           transactions.py, utils.py)                                    *)
(*   Part 4  the add_ and remove_ methods of Qif                           *)
(*   Part 5  the custom fields of quiffen/core/base.py                     *)
(*   Part 6  Account.merge of quiffen/core/account.py                      *)
(*   Part 7  parse_date of quiffen/utils.py                                *)
(*   Part 8  the loop of Transaction.from_list of                          *)
(*           quiffen/core/transaction.py                                   *)
(*   Part 9  Class of quiffen/core/class_type.py and the descriptions of   *)
(*           the categories                                                *)
(*   Part 10 ParserState of quiffen/core/parser_state.py                   *)
(*                                                                         *)
(* Strings are modelled as sequences.  A category hierarchy of Part 1 is   *)
(* the sequence of the names that the code joins with ":" (names hold no   *)
(* ":"), so "a:b" + ":" + "c" is <<a, b>> \o <<c>>.                        *)
(***************************************************************************)
EXTENDS Integers, Sequences, FiniteSets, TLC

VARIABLES
    \* ---- Part 1: the arena of Category objects
    parent,         \* Category.parent   : node -> node or None
    children,       \* Category.children : node -> sequence of nodes
    hierarchy,      \* Category.hierarchy: node -> sequence of names
    recursionError, \* TRUE once a call died in unbounded recursion
    container,      \* the dict handed to add_categories_to_container
    \* ---- Part 2: one Transaction object
    txnAmount,      \* <<Transaction.amount>> in hundredths, <<>> before construction
    splits,         \* Transaction.splits: sequence of [amount, percent]
    \* ---- Part 3: one QIF file and what Qif.parse made of it
    doc,            \* the sections written to the file, each ended by a "^" line
    qif,            \* <<>> before Qif.parse(file), then <<its outcome>>
    reparsed,       \* <<>> before Qif.parse(text of qif.to_qif()), then <<its outcome>>
    \* ---- Part 5: the model classes and their custom fields
    customFields,   \* class -> <<>> or <<its own attribute "__CUSTOM_FIELDS">>
    registered,     \* class -> the fields add_custom_field was called with on it
    \* ---- Part 6: two Account objects of quiffen/core/account.py
    selfAccount,    \* <<>> before construction, then <<the account merged into>>
    otherAccount,   \* <<>> before construction, then <<the account merged from>>
    \* ---- Part 7: one call of utils.parse_date
    dateCall,       \* <<>> or <<[date, pattern, day_first]>>: the date that was formatted
    dateParsed,     \* <<>> before parse_date returns, then <<its outcome>>
    \* ---- Part 8: one call of Transaction.from_list of quiffen/core/transaction.py
    fromListLines,  \* the lines handed to from_list
    lineIndex,      \* how many of them the loop has read
    reader,         \* the locals of from_list: kwargs, splits, classes, the Category objects
    \* ---- Part 9: the descriptions of the Category objects of Part 1
    description,    \* Category.desc : node -> <<>> or <<text>>
    \* ---- Part 9: the Class objects of quiffen/core/class_type.py
    classObjects,   \* the Class objects: class -> [desc, categories], categories a sequence of nodes
    \* ---- Part 10: one ParserState of quiffen/core/parser_state.py
    lenient,        \* ParserState.lenient
    errors,         \* ParserState.errors
    handled,        \* the exceptions handle_exception was called with, in order
    \* ---- all parts
    last,           \* the call that produced this state
    calls           \* number of calls made so far

vars == <<parent, children, hierarchy, recursionError, container,
          txnAmount, splits, doc, qif, reparsed, customFields, registered,
          selfAccount, otherAccount, dateCall, dateParsed,
          fromListLines, lineIndex, reader, description, classObjects,
          lenient, errors, handled, last, calls>>

catVars == <<parent, children, hierarchy, recursionError, container>>

txnVars == <<txnAmount, splits>>

qifVars == <<doc, qif, reparsed>>

fieldVars == <<customFields, registered>>

\* What the calls of Parts 1 to 4 leave alone.
mergeVars == <<selfAccount, otherAccount>>

dateVars == <<dateCall, dateParsed>>

readVars == <<fromListLines, lineIndex, reader>>

classVars == <<description, classObjects>>

parserVars == <<lenient, errors, handled>>

laterVars == <<readVars, classVars, parserVars>>

otherVars == <<fieldVars, mergeVars, dateVars, laterVars>>

None == "None"

-----------------------------------------------------------------------------
(***************************************************************************)
(* Part 1.  Category                                                       *)
(***************************************************************************)

\* The Category objects that exist, and the (immutable) name of each.
Nodes == {"c1", "c2", "c3", "c4"}

CatName == [c1 |-> "P", c2 |-> "P", c3 |-> "X", c4 |-> "Y"]

Names == {CatName[n] : n \in Nodes}

\* Bounds of the exploration.
MaxCalls == 3
MaxContainerCalls == 4
MaxHier == 4
MaxArgs == 2

\* A heap is the three fields of all objects plus the exception, if any, that
\* is propagating out of the current call ("" when none).
Heap(p, c, h) == [parent |-> p, children |-> c, hierarchy |-> h, err |-> ""]

SeqToSet(s) == {s[i] : i \in 1..Len(s)}

\* Nodes reachable from the frontier through children lists.
RECURSIVE ReachFrom(_, _, _)
ReachFrom(ch, frontier, seen) ==
    LET next == UNION {SeqToSet(ch[m]) : m \in frontier} \ seen
    IN  IF next = {} THEN seen ELSE ReachFrom(ch, next, seen \cup next)

Descendants(ch, n) == ReachFrom(ch, {n}, {})

HasCycle(ch) == \E n \in Nodes : n \in Descendants(ch, n)

\* _refresh_hierarchy: "self.hierarchy + ':' + child.name if self.hierarchy
\* else child.name"
JoinHierarchy(h, nm) == IF h # <<>> THEN h \o <<nm>> ELSE <<nm>>

\* _refresh_hierarchy(self): children in list order, each followed by its own
\* subtree.  Only evaluated on heaps whose children graph has no cycle.
RECURSIVE RefreshFrom(_, _, _, _)
RefreshFrom(hier, ch, n, i) ==
    IF i > Len(ch[n]) THEN hier
    ELSE LET c  == ch[n][i]
             h1 == [hier EXCEPT ![c] = JoinHierarchy(hier[n], CatName[c])]
             h2 == RefreshFrom(h1, ch, c, 1)
         IN  RefreshFrom(h2, ch, n, i + 1)

RefreshHierarchy(hier, ch, n) == RefreshFrom(hier, ch, n, 1)

\* pydantic's BaseModel.__eq__ compares Category.dict(): the scalar fields,
\* the hierarchy, the names of the children and the name of the parent.
ChildNames(H, n) == [i \in 1..Len(H.children[n]) |-> CatName[H.children[n][i]]]

ParentName(H, n) == IF H.parent[n] = None THEN None ELSE CatName[H.parent[n]]

CatEq(H, a, b) ==
    \/ a = b
    \/ /\ CatName[a] = CatName[b]
       /\ H.hierarchy[a] = H.hierarchy[b]
       /\ ChildNames(H, a) = ChildNames(H, b)
       /\ ParentName(H, a) = ParentName(H, b)

\* "x in lst" and "lst.remove(x)" of a Python list of Category objects.
ListHas(H, lst, x) == \E i \in 1..Len(lst) : CatEq(H, lst[i], x)

ListRemove(H, lst, x) ==
    LET i == CHOOSE k \in 1..Len(lst) :
                 /\ CatEq(H, lst[k], x)
                 /\ \A j \in 1..(k - 1) : ~CatEq(H, lst[j], x)
    IN  SubSeq(lst, 1, i - 1) \o SubSeq(lst, i + 1, Len(lst))

\* Category.set_parent(self, parent).  When the append closes a cycle of
\* children lists, _refresh_hierarchy never returns (RecursionError): the
\* parent and children fields stay as written, the hierarchies are not kept.
SetParent(H, self, p) ==
    IF H.err # "" THEN H
    ELSE IF p = self THEN [H EXCEPT !.err = "ValueError"]
    ELSE
    LET old == H.parent[self]
        H1  == IF old # None /\ ListHas(H, H.children[old], self)
               THEN [H EXCEPT !.children[old] = ListRemove(H, H.children[old], self)]
               ELSE H
        H2  == [H1 EXCEPT !.parent[self] = p]
    IN  IF p # None
        THEN LET H3 == [H2 EXCEPT !.children[p] = Append(H2.children[p], self)]
             IN  IF HasCycle(H3.children)
                 THEN [H3 EXCEPT !.err = "RecursionError"]
                 ELSE [H3 EXCEPT !.hierarchy = RefreshHierarchy(H3.hierarchy, H3.children, p)]
        ELSE LET h == [H2.hierarchy EXCEPT ![self] = <<CatName[self]>>]
             IN  [H2 EXCEPT !.hierarchy = RefreshHierarchy(h, H2.children, self)]

\* Category.add_child(self, child) with a Category argument.
AddChild(H, self, child) == SetParent(H, child, self)

\* Category.set_children(self, children): the list is replaced by an empty
\* one, then every given child is added in order.
RECURSIVE AddAll(_, _, _, _)
AddAll(H, self, cs, i) ==
    IF i > Len(cs) THEN H ELSE AddAll(AddChild(H, self, cs[i]), self, cs, i + 1)

SetChildren(H, self, cs) ==
    IF H.err # "" THEN H ELSE AddAll([H EXCEPT !.children[self] = <<>>], self, cs, 1)

\* Category.find_child(self, node_name): a stack, popped from the end.
RECURSIVE FindVisit(_, _, _)
FindVisit(H, stack, nm) ==
    IF stack = <<>> THEN None
    ELSE LET cur == stack[Len(stack)]
         IN  IF CatName[cur] = nm THEN cur
             ELSE FindVisit(H, SubSeq(stack, 1, Len(stack) - 1) \o H.children[cur], nm)

FindChild(H, self, nm) == FindVisit(H, <<self>>, nm)

\* Category.remove_child(self, child, keep_children).  A Category argument
\* is looked up by its name, like a string argument.
RemoveChild(H, self, nm, keep) ==
    LET cc == FindChild(H, self, nm)
    IN  IF H.err # "" THEN H
        ELSE IF cc = None THEN [H EXCEPT !.err = "KeyError"]
        ELSE
        LET p       == H.parent[cc]
            Other(c) == ~CatEq(H, c, cc)
            kept    == IF p # None THEN SelectSeq(H.children[p], Other) ELSE <<>>
            newc    == IF keep THEN kept \o H.children[cc] ELSE kept
            H1      == IF p # None THEN SetChildren(H, p, newc) ELSE H
        IN  SetParent(H1, cc, None)

\* Category.merge(self, other): the result is the heap and the returned bool.
\* The loop over other.children reads the live list by position, as Python's
\* list iterator does, while add_child takes elements out of it.
RECURSIVE Merge(_, _, _), MergeSearch(_, _, _, _), MergeAdopt(_, _, _, _)
Merge(H, self, other) ==
    IF H.err # "" THEN [heap |-> H, ok |-> FALSE]
    ELSE IF CatName[other] # CatName[self] THEN MergeSearch(H, self, other, 1)
    ELSE [heap |-> MergeAdopt(H, self, other, 1), ok |-> TRUE]

MergeSearch(H, self, other, i) ==
    IF i > Len(H.children[self]) THEN [heap |-> H, ok |-> FALSE]
    ELSE LET r == Merge(H, H.children[self][i], other)
         IN  IF r.ok THEN r ELSE MergeSearch(r.heap, self, other, i + 1)

MergeAdopt(H, self, other, i) ==
    IF H.err # "" \/ i > Len(H.children[other]) THEN H
    ELSE LET oc == H.children[other][i]
             tc == FindChild(H, self, CatName[oc])
             H1 == IF tc # None THEN Merge(H, tc, oc).heap ELSE AddChild(H, self, oc)
         IN  MergeAdopt(H1, self, other, i + 1)

\* A traversal that takes the next node from the front of the list of nodes
\* to visit.
RECURSIVE QueueVisit(_, _, _)
QueueVisit(H, nodes_to_visit, all_children) ==
    IF nodes_to_visit = <<>> THEN all_children
    ELSE LET current_node == Head(nodes_to_visit)
         IN  QueueVisit(H, Tail(nodes_to_visit) \o H.children[current_node],
                        Append(all_children, current_node))

TraverseDownQueue(H, self) == QueueVisit(H, <<self>>, <<>>)

\* Category.traverse_down(self): nodes_to_visit is a stack, popped from the
\* end.  Only evaluated on heaps whose children graph has no cycle.
RECURSIVE TraverseVisit(_, _, _)
TraverseVisit(H, nodes_to_visit, all_children) ==
    IF nodes_to_visit = <<>> THEN all_children
    ELSE LET current_node == nodes_to_visit[Len(nodes_to_visit)]
         IN  TraverseVisit(H,
                           SubSeq(nodes_to_visit, 1, Len(nodes_to_visit) - 1)
                               \o H.children[current_node],
                           Append(all_children, current_node))

TraverseDown(H, self) == TraverseVisit(H, <<self>>, <<>>)

\* Category.traverse_up(self)[-1]: the end of the parent chain, None when the
\* chain is a cycle (the loop never ends).
RECURSIVE RootOf(_, _, _)
RootOf(H, n, fuel) ==
    IF H.parent[n] = None THEN n
    ELSE IF fuel = 0 THEN None
    ELSE RootOf(H, H.parent[n], fuel - 1)

TraverseUpLast(H, n) == RootOf(H, n, Cardinality(Nodes))

\* A dict as the sequence of its items in insertion order; d[k] = v.
DictKeys(d) == {d[i].key : i \in 1..Len(d)}

DictGet(d, k) == d[CHOOSE i \in 1..Len(d) : d[i].key = k].node

DictSet(d, k, v) ==
    IF k \in DictKeys(d)
    THEN [i \in 1..Len(d) |-> IF d[i].key = k THEN [key |-> k, node |-> v] ELSE d[i]]
    ELSE Append(d, [key |-> k, node |-> v])

\* add_categories_to_container(new_category, categories) for a dict.
RECURSIVE MergeIntoFirst(_, _, _, _)
MergeIntoFirst(H, d, root, i) ==
    IF i > Len(d) THEN [heap |-> H, ok |-> FALSE]
    ELSE LET r == Merge(H, d[i].node, root)
         IN  IF r.ok \/ r.heap.err # "" THEN r ELSE MergeIntoFirst(r.heap, d, root, i + 1)

AddCategoriesToContainer(H, d, new) ==
    IF H.hierarchy[new] # <<CatName[new]>> \/ H.children[new] # <<>>
    THEN LET root == TraverseUpLast(H, new)
             r    == MergeIntoFirst(H, d, root, 1)
         IN  IF r.ok \/ r.heap.err # ""
             THEN [heap |-> r.heap, dict |-> d]
             ELSE [heap |-> r.heap, dict |-> DictSet(d, CatName[root], root)]
    ELSE [heap |-> H, dict |-> DictSet(d, CatName[new], new)]

\* add_categories_to_container(new_category, categories) for a list l of
\* categories.
AddCategoriesToList(H, l, new) ==
    IF H.hierarchy[new] # <<CatName[new]>> \/ H.children[new] # <<>>
    THEN LET root == TraverseUpLast(H, new)
             Added(r) == IF r.ok \/ r.heap.err # ""
                         THEN [heap |-> r.heap, dict |-> l]
                         ELSE [heap |-> r.heap, dict |-> Append(l, root)]
         IN  Added(MergeIntoFirst(H, [i \in 1..Len(l) |-> [node |-> l[i]]], root, 1))
    ELSE [heap |-> H, dict |-> Append(l, new)]

-----------------------------------------------------------------------------
\* The state machine of Part 1.

CurHeap == Heap(parent, children, hierarchy)

\* A call that raises ValueError or KeyError leaves what it wrote so far; a
\* call that dies in recursion sets recursionError and nothing is called after.
Commit(H, d, c, bound) ==
    /\ ~recursionError
    /\ calls < bound
    /\ \A n \in Nodes : Len(H.hierarchy[n]) <= MaxHier
    /\ parent' = H.parent
    /\ children' = H.children
    /\ hierarchy' = H.hierarchy
    /\ recursionError' = (H.err = "RecursionError")
    /\ container' = d
    /\ last' = [c EXCEPT !.raised = H.err]
    /\ calls' = calls + 1
    /\ UNCHANGED <<txnVars, qifVars, otherVars>>

\* Standalone categories, an empty container.
InitCatVars ==
    /\ parent = [n \in Nodes |-> None]
    /\ children = [n \in Nodes |-> <<>>]
    /\ hierarchy = [n \in Nodes |-> <<CatName[n]>>]
    /\ recursionError = FALSE
    /\ container = <<>>

\* No Transaction constructed yet.
InitTxnVars ==
    /\ txnAmount = <<>>
    /\ splits = <<>>

\* No file has been written or parsed.
InitQifVars ==
    /\ doc = <<>>
    /\ qif = <<>>
    /\ reparsed = <<>>

\* The model classes: BaseModel, a subclass, a subclass of that one, and
\* another subclass of BaseModel.  No class has custom fields yet.
Classes == {"BaseModel", "TestModel1", "TestModel2", "TestModel3"}

InitFieldVars ==
    /\ customFields = [c \in Classes |-> <<>>]
    /\ registered = [c \in Classes |-> <<>>]

\* No Account constructed yet.
InitMergeVars ==
    /\ selfAccount = <<>>
    /\ otherAccount = <<>>

\* parse_date not called yet.
InitDateVars ==
    /\ dateCall = <<>>
    /\ dateParsed = <<>>

\* No call of from_list yet.
InitReadVars ==
    /\ fromListLines = <<>>
    /\ lineIndex = 0
    /\ reader = <<>>

\* Class(name=k) for two names: no description, no categories.
ClassNames == {"K1", "K2"}

InitClassObjects == classObjects = [k \in ClassNames |-> [desc |-> <<>>, categories |-> <<>>]]

\* No category has a description.
InitClassVars ==
    /\ description = [n \in {"c1", "c2", "c3", "c4"} |-> <<>>]
    /\ InitClassObjects

\* ParserState(): strict, no error collected.
InitParserVars ==
    /\ lenient = FALSE
    /\ errors = <<>>
    /\ handled = <<>>

InitLaterVars == InitReadVars /\ InitClassVars /\ InitParserVars

InitOtherVars == InitFieldVars /\ InitMergeVars /\ InitDateVars /\ InitLaterVars

InitCat ==
    /\ InitCatVars
    /\ InitTxnVars
    /\ InitOtherVars
    /\ InitQifVars
    /\ last = [op |-> "init", self |-> None, arg |-> None, keep |-> FALSE, raised |-> ""]
    /\ calls = 0

ArgLists == {s \in UNION {[1..k -> Nodes] : k \in 0..MaxArgs} :
                \A i, j \in 1..Len(s) : i # j => s[i] # s[j]}

DoAddChild(b) ==
    \E p \in Nodes, c \in Nodes :
        Commit(AddChild(CurHeap, p, c), container,
               [op |-> "add_child", self |-> p, arg |-> c, keep |-> FALSE, raised |-> ""], b)

DoSetParent ==
    \E c \in Nodes, p \in Nodes \cup {None} :
        Commit(SetParent(CurHeap, c, p), container,
               [op |-> "set_parent", self |-> c, arg |-> p, keep |-> FALSE, raised |-> ""], MaxCalls)

DoSetChildren ==
    \E p \in Nodes, cs \in ArgLists :
        Commit(SetChildren(CurHeap, p, cs), container,
               [op |-> "set_children", self |-> p, arg |-> cs, keep |-> FALSE, raised |-> ""], MaxCalls)

DoRemoveChild ==
    \E p \in Nodes, nm \in Names, k \in BOOLEAN :
        Commit(RemoveChild(CurHeap, p, nm, k), container,
               [op |-> "remove_child", self |-> p, arg |-> nm, keep |-> k, raised |-> ""], MaxCalls)

DoMerge ==
    \E a \in Nodes, b \in Nodes :
        Commit(Merge(CurHeap, a, b).heap, container,
               [op |-> "merge", self |-> a, arg |-> b, keep |-> FALSE, raised |-> ""], MaxCalls)

DoAddToContainer ==
    \E n \in Nodes :
        /\ TraverseUpLast(CurHeap, n) # None
        /\ LET r == AddCategoriesToContainer(CurHeap, container, n)
           IN  Commit(r.heap, r.dict,
                      [op |-> "add_to_container", self |-> n, arg |-> None,
                       keep |-> FALSE, raised |-> ""], MaxContainerCalls)

\* The same call on a list: in SpecListContainer the container is a list.
DoAddToList ==
    \E n \in Nodes :
        /\ TraverseUpLast(CurHeap, n) # None
        /\ LET r == AddCategoriesToList(CurHeap, container, n)
           IN  Commit(r.heap, r.dict,
                      [op |-> "add_to_list", self |-> n, arg |-> None,
                       keep |-> FALSE, raised |-> ""], MaxContainerCalls)

NextCat == DoAddChild(MaxCalls) \/ DoSetParent \/ DoSetChildren \/ DoRemoveChild \/ DoMerge

SpecCat == InitCat /\ [][NextCat]_vars

NextContainer == DoAddChild(MaxContainerCalls) \/ DoAddToContainer

SpecContainer == InitCat /\ [][NextContainer]_vars

\* p.remove_child(c, keep_children) with a Category object c.
DoRemoveChildObject ==
    \E p \in Nodes, c \in Nodes, k \in BOOLEAN :
        Commit(RemoveChild(CurHeap, p, CatName[c], k), container,
               [op |-> "remove_child_object", self |-> p, arg |-> c, keep |-> k, raised |-> ""],
               MaxCalls)

NextRemoveObject == DoAddChild(MaxCalls) \/ DoRemoveChildObject

SpecRemoveObject == InitCat /\ [][NextRemoveObject]_vars

\* Only the two calls that attach a category to a parent.
NextAttach == DoAddChild(MaxCalls) \/ DoSetParent

SpecAttach == InitCat /\ [][NextAttach]_vars

NextListContainer == DoAddChild(MaxContainerCalls) \/ DoAddToList

SpecListContainer == InitCat /\ [][NextListContainer]_vars

-----------------------------------------------------------------------------
\* Properties of Part 1.

\* The name paths below n: one sequence of names per descendant of n.
RECURSIVE PathsBelow(_, _)
PathsBelow(ch, n) ==
    UNION {{<<CatName[ch[n][i]]>> \o q : q \in {<<>>} \cup PathsBelow(ch, ch[n][i])}
           : i \in 1..Len(ch[n])}

\* The hierarchies of all categories held by a container: its roots and
\* everything below them.
ContainerNodes(d, ch) ==
    LET roots == {d[i].node : i \in 1..Len(d)} IN roots \cup ReachFrom(ch, roots, {})

ContainerHierarchies(d, ch, hier) == {hier[n] : n \in ContainerNodes(d, ch)}

\* C1: in every state reached by add_child, set_parent, set_children,
\* remove_child and merge calls, a category with a parent has the parent's
\* hierarchy followed by its own name, and a category without one has its
\* bare name.
C1_HierarchyInvariant ==
    ~recursionError =>
        \A c \in Nodes :
            IF parent[c] # None
            THEN hierarchy[c] = hierarchy[parent[c]] \o <<CatName[c]>>
            ELSE hierarchy[c] = <<CatName[c]>>

\* Two categories whose subtrees share no node.
Apart(ch, a, b) ==
    ({a} \cup Descendants(ch, a)) \cap ({b} \cup Descendants(ch, b)) = {}

\* C2: after dst.merge(src) with equal names (dst and src being separate
\* trees), every child src had before the call has a same-named child of dst
\* afterwards, and every name path below src before the call is a name path
\* below dst afterwards.
C2_MergeKeepsAllChildren ==
    [][(/\ last'.op = "merge"
        /\ last'.raised = ""
        /\ CatName[last'.self] = CatName[last'.arg]
        /\ Apart(children, last'.self, last'.arg))
       => /\ \A k \in SeqToSet(children[last'.arg]) :
                 \E m \in SeqToSet(children'[last'.self]) : CatName[m] = CatName[k]
          /\ PathsBelow(children, last'.arg) \subseteq PathsBelow(children', last'.self)]_vars

\* C3: add_categories_to_container never loses a category: every hierarchy
\* held by the container before the call is held by it after the call.
C3_ContainerNeverLoses ==
    [][(last'.op = "add_to_container" /\ last'.raised = "")
       => ContainerHierarchies(container, children, hierarchy)
              \subseteq ContainerHierarchies(container', children', hierarchy')]_vars

\* C4: with r the root of the added category's chain, either r.name is a key,
\* the key set stays and container[r.name] keeps its tree and gains r's name
\* paths; or r.name becomes the one new key, mapped to r with its chain, and
\* no category that was in the container changes.
C4_MergeOrInsert ==
    [][(last'.op = "add_to_container" /\ last'.raised = "")
       => LET r  == TraverseUpLast(CurHeap, last'.self)
              nm == CatName[r]
          IN  IF nm \in DictKeys(container)
              THEN /\ DictKeys(container') = DictKeys(container)
                   /\ PathsBelow(children, DictGet(container, nm))
                          \subseteq PathsBelow(children', DictGet(container', nm))
                   /\ PathsBelow(children, r)
                          \subseteq PathsBelow(children', DictGet(container', nm))
              ELSE /\ DictKeys(container') = DictKeys(container) \cup {nm}
                   /\ DictGet(container', nm) = r
                   /\ PathsBelow(children', r) = PathsBelow(children, r)
                   /\ \A n \in ContainerNodes(container, children) :
                          /\ children'[n] = children[n]
                          /\ parent'[n] = parent[n]
                          /\ hierarchy'[n] = hierarchy[n]]_vars

\* A forest: every category is once in the children of its parent and in no
\* other list, no category is below itself, and the hierarchies are the name
\* paths.
WellFormed(par, ch, hier) ==
    /\ ~HasCycle(ch)
    /\ \A n, m \in Nodes :
           Cardinality({i \in 1..Len(ch[n]) : ch[n][i] = m}) = IF par[m] = n THEN 1 ELSE 0
    /\ \A n \in Nodes :
           hier[n] = IF par[n] = None THEN <<CatName[n]>> ELSE hier[par[n]] \o <<CatName[n]>>

\* The items of a list that are in a set, in the order of the list.
Restrict(lst, S) == LET In(x) == x \in S IN SelectSeq(lst, In)

\* C21: in every state reached by add_child and set_parent calls, those that
\* end in an error included, no category is its own ancestor: no category is
\* below itself through the children lists and every parent chain ends at a
\* root.
C21_NoCategoryIsOwnAncestor ==
    /\ ~HasCycle(children)
    /\ \A n \in Nodes : TraverseUpLast(CurHeap, n) # None

\* C26: p.remove_child(c) on a forest, with a Category object c that is below
\* p, detaches that object and nothing else: afterwards c has no parent, and
\* every category that is neither c nor below c has the parent it had and the
\* children it had, c taken out.
C26_RemoveChildObjectDetachesIt ==
    [][(/\ last'.op = "remove_child_object"
        /\ last'.raised = ""
        /\ ~last'.keep
        /\ WellFormed(parent, children, hierarchy)
        /\ last'.arg \in Descendants(children, last'.self))
       => LET c == last'.arg
          IN  /\ parent'[c] = None
              /\ \A n \in Nodes \ ({c} \cup Descendants(children, c)) :
                     /\ parent'[n] = parent[n]
                     /\ children'[n] = Restrict(children[n], Nodes \ {c})]_vars

\* The place of a node in a list that holds it.
Position(t, x) == CHOOSE i \in 1..Len(t) : t[i] = x

C20_ChildrenMatchParent ==
    \A c, p \in Nodes :
        Cardinality({i \in 1..Len(children[p]) : children[p][i] = c})
            = IF parent[c] = p THEN 1 ELSE 0

\* C17: after p.remove_child(c, keep_children) on a forest, for a child c of
\* p (the call looks c up by its name): c has no parent and is not among p's
\* children, and the hierarchies of c and of what is below it start from c's
\* bare name; with keep_children the former children of c are children of p,
\* in their order, with hierarchies under p's, and without it they are still
\* the children of c; the other children of p are still its children, in
\* their order.
C17_RemoveChildDetaches ==
    [][(/\ last'.op = "remove_child"
        /\ last'.raised = ""
        /\ WellFormed(parent, children, hierarchy))
       => \A c \in {n \in Nodes : parent[n] = last'.self /\ CatName[n] = last'.arg} :
              LET p == last'.self
              IN  /\ parent'[c] = None
                  /\ c \notin SeqToSet(children'[p])
                  /\ hierarchy'[c] = <<CatName[c]>>
                  /\ \A d \in Descendants(children', c) :
                         hierarchy'[d] = hierarchy'[parent'[d]] \o <<CatName[d]>>
                  /\ IF last'.keep
                     THEN /\ Restrict(children'[p], SeqToSet(children[c])) = children[c]
                          /\ \A g \in SeqToSet(children[c]) :
                                 /\ parent'[g] = p
                                 /\ hierarchy'[g] = hierarchy'[p] \o <<CatName[g]>>
                     ELSE /\ children'[c] = children[c]
                          /\ \A g \in SeqToSet(children[c]) : parent'[g] = c
                  /\ Restrict(children'[p], SeqToSet(children[p]) \ {c})
                         = Restrict(children[p], SeqToSet(children[p]) \ {c})]_vars

\* The root entries of a container, a dict or (after add_to_list) a list.
RootEntries(c, op) ==
    IF op = "add_to_list" THEN SeqToSet(c) ELSE {c[i].node : i \in 1..Len(c)}

\* C14: when the container (dict or list) already holds, as a root entry, a
\* tree identical to the tree that add_categories_to_container adds (the
\* tree of the root of the added category: same name, same name paths
\* below), the call leaves the number of root entries and the number of
\* categories reachable from the container unchanged.
C14_IdenticalTreeChangesNoCounts ==
    [][(/\ last'.op \in {"add_to_container", "add_to_list"}
        /\ last'.raised = ""
        /\ \E e \in RootEntries(container, last'.op) :
               /\ CatName[e] = CatName[TraverseUpLast(CurHeap, last'.self)]
               /\ PathsBelow(children, e)
                      = PathsBelow(children, TraverseUpLast(CurHeap, last'.self)))
       => /\ Len(container') = Len(container)
          /\ Cardinality(RootEntries(container', last'.op)
                         \cup ReachFrom(children', RootEntries(container', last'.op), {}))
               = Cardinality(RootEntries(container, last'.op)
                             \cup ReachFrom(children, RootEntries(container, last'.op), {}))]_vars

-----------------------------------------------------------------------------
(***************************************************************************)
(* Part 2.  Transaction and its splits (quiffen/core/transaction.py)       *)
(*                                                                         *)
(* A Decimal amount is an integer number of hundredths, a Decimal percent  *)
(* an integer number of hundredths of a percent.  An Optional[Decimal] is  *)
(* a sequence: <<>> for None, <<v>> for the value v.  On such values the   *)
(* comparison "x > 0.01" of a Decimal with the float 0.01 (which lies just *)
(* above 1/100) is "x > 1".                                                *)
(***************************************************************************)

MaxSplits == 6
MaxShortSplits == 2
MaxTxnCalls == 2

\* Inputs.
DollarAmounts == {1, 2}
SplitAmounts == {<<>>, <<0>>, <<-1>>, <<1>>, <<2>>}
SplitPercents == {<<>>, <<0>>, <<-5000>>, <<5000>>, <<10001>>, <<12000>>}
TxnAmounts == -1..(2 * MaxSplits)

Split(a, p) == [amount |-> a, percent |-> p]

Abs(x) == IF x < 0 THEN -x ELSE x

\* sum(xs) of a sequence of integers.
RECURSIVE SumSeq(_)
SumSeq(xs) == IF xs = <<>> THEN 0 ELSE Head(xs) + SumSeq(Tail(xs))

ValueOr0(o) == IF o = <<>> THEN 0 ELSE o[1]

AmountOf(s) == ValueOr0(s.amount)

PercentOf(s) == ValueOr0(s.percent)

\* sum(split.amount for split in splits if split.amount is not None)
TotalAmount(ss) == SumSeq([i \in 1..Len(ss) |-> AmountOf(ss[i])])

\* sum(split.percent for split in splits if split.percent)
TotalPercent(ss) == SumSeq([i \in 1..Len(ss) |-> PercentOf(ss[i])])

\* The validator check_split_percentages_and_amounts: TRUE when it raises.
CheckSplitsRaises(amount, ss) ==
    \/ TotalPercent(ss) - 10000 > 1
    \/ Abs(TotalAmount(ss)) - Abs(amount) > 1

\* round(n / d, 0) of Decimal: to the nearest integer, ties to even.
RoundHalfEven(n, d) ==
    LET nn == IF d < 0 THEN -n ELSE n
        dd == Abs(d)
        q  == nn \div dd
        r  == nn % dd
    IN  IF 2 * r < dd THEN q
        ELSE IF 2 * r > dd THEN q + 1
        ELSE IF q % 2 = 0 THEN q ELSE q + 1

\* Decimal(round(split.amount / total * 100, 2)), in hundredths of a percent.
DerivedPercent(a, total) == RoundHalfEven(a * 10000, total)

\* The end of Transaction.from_list: percents of the splits of a record with
\* amount total ("T" line) and the given "$" and "%" lines per split.
FromListSplits(total, ss) ==
    IF total # 0
    THEN [i \in 1..Len(ss) |->
             IF ss[i].percent = <<>> /\ ss[i].amount # <<>>
             THEN Split(ss[i].amount, <<DerivedPercent(ss[i].amount[1], total)>>)
             ELSE ss[i]]
    ELSE [i \in 1..Len(ss) |-> Split(ss[i].amount, <<>>)]

\* Transaction.add_split(split): TRUE when it raises.
AddSplitRaises(amount, ss, s) ==
    \/ /\ s.percent # <<>>
       /\ s.percent # <<0>>
       /\ TotalPercent(ss) + s.percent[1] - 10000 > 1
    \/ /\ s.amount # <<>>
       /\ s.amount # <<0>>
       /\ Abs(TotalAmount(ss) + s.amount[1]) - Abs(amount) > 1

\* Transaction.remove_splits(**filters) with the filter attr=value; the
\* attribute "" stands for no filter at all.
Matches(s, attr, value) ==
    CASE attr = "amount"  -> s.amount = value
      [] attr = "percent" -> s.percent = value
      [] OTHER            -> TRUE

RemoveSplits(ss, attr, value) ==
    LET Stays(s) == ~Matches(s, attr, value) IN SelectSeq(ss, Stays)

\* Sequences of length 0..n over the set S.
SeqsUpTo(S, n) == UNION {[1..k -> S] : k \in 0..n}

\* The splits of the records given to from_list: any number of "$"-only
\* splits, or a few splits with any mix of "$" and "%" lines.
RecordSplits ==
    SeqsUpTo({Split(<<a>>, <<>>) : a \in DollarAmounts}, MaxSplits)
        \cup SeqsUpTo({Split(a, p) : a \in SplitAmounts, p \in SplitPercents}, MaxShortSplits)

\* The splits given to the constructor.  One Transaction is built per
\* behaviour, by the first call.
GivenSplits ==
    SeqsUpTo({Split(a, p) : a \in SplitAmounts, p \in SplitPercents}, MaxShortSplits)

TxnCommit(a, ss, c) ==
    /\ calls < MaxTxnCalls
    /\ txnAmount' = a
    /\ splits' = ss
    /\ last' = c
    /\ calls' = calls + 1
    /\ UNCHANGED <<catVars, qifVars, otherVars>>

InitTxn ==
    /\ InitCatVars
    /\ InitTxnVars
    /\ InitOtherVars
    /\ InitQifVars
    /\ last = [op |-> "init", amount |-> 0, arg |-> <<>>, raised |-> ""]
    /\ calls = 0

\* Transaction(date=..., amount=a, splits=ss)
NewTransaction ==
    /\ calls = 0
    /\ \E a \in TxnAmounts, ss \in GivenSplits :
           IF ss # <<>> /\ CheckSplitsRaises(a, ss)
           THEN TxnCommit(<<>>, <<>>,
                          [op |-> "new", amount |-> a, arg |-> ss, raised |-> "ValueError"])
           ELSE TxnCommit(<<a>>, ss,
                          [op |-> "new", amount |-> a, arg |-> ss, raised |-> ""])

\* Transaction.from_list(lst) for a record with a "T" line and split lines.
FromList ==
    /\ calls = 0
    /\ \E a \in TxnAmounts, rs \in RecordSplits :
           LET ss == FromListSplits(a, rs)
           IN  IF ss # <<>> /\ CheckSplitsRaises(a, ss)
               THEN TxnCommit(<<>>, <<>>,
                              [op |-> "from_list", amount |-> a, arg |-> rs, raised |-> "ValueError"])
               ELSE TxnCommit(<<a>>, ss,
                              [op |-> "from_list", amount |-> a, arg |-> rs, raised |-> ""])

DoAddSplit ==
    /\ txnAmount # <<>>
    /\ calls < MaxTxnCalls
    /\ \E a \in SplitAmounts, p \in SplitPercents :
           IF AddSplitRaises(txnAmount[1], splits, Split(a, p))
           THEN TxnCommit(txnAmount, splits,
                          [op |-> "add_split", amount |-> txnAmount[1], arg |-> <<Split(a, p)>>,
                           raised |-> "ValueError"])
           ELSE TxnCommit(txnAmount, Append(splits, Split(a, p)),
                          [op |-> "add_split", amount |-> txnAmount[1], arg |-> <<Split(a, p)>>,
                           raised |-> ""])

DoRemoveSplits ==
    /\ txnAmount # <<>>
    /\ calls < MaxTxnCalls
    /\ \E attr \in {"", "amount", "percent"}, v \in SplitAmounts \cup SplitPercents :
        /\ attr = "" => v = <<>>
        /\ TxnCommit(txnAmount, RemoveSplits(splits, attr, v),
                     [op |-> "remove_splits", amount |-> txnAmount[1], arg |-> <<attr, v>>,
                      raised |-> ""])

NextTxn == NewTransaction \/ FromList \/ DoAddSplit \/ DoRemoveSplits

SpecTxn == InitTxn /\ [][NextTxn]_vars

-----------------------------------------------------------------------------
\* Properties of Part 2.

\* sum(|split.amount|) over the splits that have an amount.
TotalAbsAmount(ss) == SumSeq([i \in 1..Len(ss) |-> Abs(AmountOf(ss[i]))])

\* C5: a Transaction with splits, however built and changed, has
\* sum(|split.amount|) <= |amount| + 0.01 and sum(split.percent) <= 100.01.
C5_SplitSumInvariant ==
    (txnAmount # <<>> /\ splits # <<>>)
        => /\ TotalAbsAmount(splits) <= Abs(txnAmount[1]) + 1
           /\ TotalPercent(splits) <= 10001

\* C6: from_list does not raise for a record with a nonzero amount whose
\* splits carry only "$" lines that sum exactly to the amount.
C6_FromListExactSplitsNeverRaise ==
    (/\ last.op = "from_list"
     /\ last.amount # 0
     /\ \A i \in 1..Len(last.arg) : last.arg[i].amount # <<>> /\ last.arg[i].percent = <<>>
     /\ TotalAmount(last.arg) = last.amount)
        => last.raised = ""

-----------------------------------------------------------------------------
(***************************************************************************)
(* Part 3.  Qif.parse and Qif.to_qif (quiffen/core/qif.py) with the record *)
(* classes they use.                                                       *)
(*                                                                         *)
(* A Python str is the sequence of its characters.  A file is the sequence *)
(* of its sections (the pieces of data.split('^\n')), a section the        *)
(* sequence of its lines; the empty str is the section <<>>.  An optional  *)
(* value is <<>> for None and <<v>> for v.                                 *)
(***************************************************************************)

\* str.lower() on the letters that occur.
LowerOf ==
    [A |-> "a", B |-> "b", C |-> "c", D |-> "d", E |-> "e", F |-> "f", G |-> "g",
     H |-> "h", I |-> "i", J |-> "j", K |-> "k", L |-> "l", M |-> "m", N |-> "n",
     O |-> "o", P |-> "p", Q |-> "q", R |-> "r", S |-> "s", T |-> "t", U |-> "u",
     V |-> "v", W |-> "w", X |-> "x", Y |-> "y", Z |-> "z"]

Lower(s) == [i \in 1..Len(s) |-> IF s[i] \in DOMAIN LowerOf THEN LowerOf[s[i]] ELSE s[i]]

\* s.replace(c, '')
Without(s, c) == LET Keep(x) == x # c IN SelectSeq(s, Keep)

\* sub in s
Contains(sub, s) ==
    \E i \in 0..(Len(s) - Len(sub)) : SubSeq(s, i + 1, i + Len(sub)) = sub

\* s.strip() == ''
IsBlank(s) == \A i \in 1..Len(s) : s[i] = " "

\* s.split(sep) for a one-character sep: the sequence of the pieces.
RECURSIVE SplitFrom(_, _, _, _)
SplitFrom(s, sep, i, piece) ==
    IF i > Len(s) THEN <<piece>>
    ELSE IF s[i] = sep THEN <<piece>> \o SplitFrom(s, sep, i + 1, <<>>)
    ELSE SplitFrom(s, sep, i + 1, Append(piece, s[i]))

SplitOn(s, sep) == SplitFrom(s, sep, 1, <<>>)

LastOf(xs) == xs[Len(xs)]

\* sep.join(pieces)
RECURSIVE JoinWith(_, _)
JoinWith(pieces, sep) ==
    IF pieces = <<>> THEN <<>>
    ELSE IF Len(pieces) = 1 THEN pieces[1]
    ELSE pieces[1] \o <<sep>> \o JoinWith(Tail(pieces), sep)

\* The headers.
BangType == <<"!", "T", "y", "p", "e">>
TypeCat == BangType \o <<":", "C", "a", "t">>
TypeClass == BangType \o <<":", "C", "l", "a", "s", "s">>
TypeSecurity == BangType \o <<":", "S", "e", "c", "u", "r", "i", "t", "y">>
TypeInvst == BangType \o <<":", "I", "n", "v", "s", "t">>
BangAccount == <<"!", "A", "c", "c", "o", "u", "n", "t">>
TypeBank == BangType \o <<":", "B", "a", "n", "k">>
TypeCash == BangType \o <<":", "C", "a", "s", "h">>
TypeCCard == BangType \o <<":", "C", "C", "a", "r", "d">>
TypeOthA == BangType \o <<":", "O", "t", "h", " ", "A">>
TypeOthL == BangType \o <<":", "O", "t", "h", " ", "L">>
TypeInvoice == BangType \o <<":", "I", "n", "v", "o", "i", "c", "e">>

VALID_TRANSACTION_ACCOUNT_TYPES ==
    {Lower(TypeCash), Lower(TypeBank), Lower(TypeCCard), Lower(TypeOthA), Lower(TypeOthL),
     Lower(TypeInvoice)}

\* The name and the description of the default account.
DefaultAccountName ==
    <<"Q", "u", "i", "f", "f", "e", "n", " ", "D", "e", "f", "a", "u", "l", "t", " ",
      "A", "c", "c", "o", "u", "n", "t">>

DefaultAccountDesc ==
    <<"T", "h", "e", " ", "d", "e", "f", "a", "u", "l", "t", " ", "a", "c", "c", "o",
      "u", "n", "t", " ", "c", "r", "e", "a", "t", "e", "d", " ", "b", "y", " ", "Q",
      "u", "i", "f", "f", "e", "n", " ", "w", "h", "e", "n", " ", "n", "o", " ", "o",
      "t", "h", "e", "r", " ", "a", "c", "c", "o", "u", "n", "t", "s", " ", "w", "e",
      "r", "e", " ", "p", "r", "e", "s", "e", "n", "t">>

\* Field values.  A date text is one digit, the day; an amount text is one
\* digit.  Any other text makes the conversion raise.
DigitValue == [d \in {"0", "1", "2", "3", "4", "5", "6", "7", "8", "9"} |->
                  CASE d = "0" -> 0 [] d = "1" -> 1 [] d = "2" -> 2 [] d = "3" -> 3
                    [] d = "4" -> 4 [] d = "5" -> 5 [] d = "6" -> 6 [] d = "7" -> 7
                    [] d = "8" -> 8 [] d = "9" -> 9]

DigitText == [v \in 0..9 |-> CHOOSE d \in DOMAIN DigitValue : DigitValue[d] = v]

IsNumber(t) == Len(t) = 1 /\ t[1] \in DOMAIN DigitValue

\* utils.parse_date(text), datetime.strftime; float(text), str(Decimal).
ParseNumber(t) == DigitValue[t[1]]

FormatNumber(v) == <<DigitText[v]>>

\* ---- Category of categories_classes.py.  The Category objects live in an
\* arena (a sequence; an object is its index); a dict of root categories is a
\* sequence of [key, node] items.
CategoryObject(name, hier) ==
    [name |-> name, hierarchy |-> hier, children |-> <<>>, parent |-> <<>>,
     desc |-> <<>>, tax_related |-> <<>>, expense |-> TRUE, income |-> FALSE]

\* Category.find_category(node_name), 0 for its KeyError.
RECURSIVE FindCategoryVisit(_, _, _)
FindCategoryVisit(nodes, stack, nm) ==
    IF stack = <<>> THEN 0
    ELSE LET cur == stack[Len(stack)]
         IN  IF nodes[cur].name = nm THEN cur
             ELSE FindCategoryVisit(nodes, SubSeq(stack, 1, Len(stack) - 1) \o nodes[cur].children, nm)

\* The first root of the dict under which the name is found, 0 if none.
RECURSIVE FindInRoots(_, _, _, _)
FindInRoots(nodes, roots, nm, i) ==
    IF i > Len(roots) THEN 0
    ELSE LET f == FindCategoryVisit(nodes, <<roots[i].node>>, nm)
         IN  IF f # 0 THEN f ELSE FindInRoots(nodes, roots, nm, i + 1)

\* Category.add_child(self, child_category)
\* "child_category.parent != self" compares names, as Category.__eq__ does.
OldAddChild(nodes, p, c) ==
    LET n1 == [nodes EXCEPT ![p].children = Append(@, c),
                            ![c].parent = IF @ # <<>> /\ nodes[@[1]].name = nodes[p].name
                                          THEN @ ELSE <<p>>]
    IN  IF ~Contains(n1[p].hierarchy, n1[c].hierarchy)
        THEN [n1 EXCEPT ![c].hierarchy = n1[p].hierarchy \o <<":">> \o n1[c].hierarchy]
        ELSE n1

\* "current_category not in parent.children": Category.__eq__ compares names.
HasChildNamed(nodes, p, nm) ==
    \E i \in 1..Len(nodes[p].children) : nodes[nodes[p].children[i]].name = nm

\* utils.create_categories(new_category, categories) for a dict; the loop
\* "for i in range(2, len(hierarchy) + 1)" from step i on.
RECURSIVE CreateFrom(_, _, _, _, _)
CreateFrom(nodes, roots, cur, h, i) ==
    IF i > Len(h) THEN [nodes |-> nodes, roots |-> roots]
    ELSE LET toFind == h[Len(h) - i + 1]
             p == Len(nodes) + 1
             parentObject == CategoryObject(toFind, JoinWith(SubSeq(h, 1, Len(h) - i + 1), ":"))
             Found(found) ==
                 IF found # 0
                 THEN [nodes |-> IF HasChildNamed(nodes, found, nodes[cur].name)
                                 THEN nodes ELSE OldAddChild(nodes, found, cur),
                       roots |-> roots]
                 ELSE CreateFrom(OldAddChild(Append(nodes, parentObject), p, cur),
                                 IF i = Len(h) THEN DictSet(roots, toFind, p) ELSE roots,
                                 p, h, i + 1)
         IN  Found(FindInRoots(nodes, roots, toFind, 1))

CreateCategories(nodes, roots, new) ==
    CreateFrom(nodes, roots, new, SplitOn(nodes[new].hierarchy, ":"), 2)

\* ---- The from_list methods.  A line is its code followed by its text; the
\* lines of the model carry the codes N, D, T, L, E, I, !, # and ^, and a code
\* a method has no branch for is skipped.
Raise(st, e) == [st EXCEPT !.raised = e]

\* The "L" branch of Transaction.from_list.
TransactionCategoryLine(st, text) ==
    LET hasClass == Contains(<<"/">>, text)
        info     == IF hasClass THEN SplitOn(text, "/")[1] ELSE text
        st1      == IF hasClass
                    THEN [st EXCEPT !.classes = Append(@, SplitOn(text, "/")[2])]
                    ELSE st
        hier     == IF st.last_category = <<>> THEN info
                    ELSE st.last_category[1] \o <<":">> \o info
        new      == Len(st.nodes) + 1
        Created(r) == [st1 EXCEPT !.last_category = <<hier>>, !.nodes = r.nodes,
                                  !.roots = r.roots, !.category = <<new>>]
    IN  IF info # <<>> /\ info[1] = "["
        THEN [st1 EXCEPT !.to_account = <<SubSeq(info, 2, Len(info) - 1)>>]
        ELSE Created(CreateCategories(
                 Append(st.nodes, CategoryObject(LastOf(SplitOn(info, ":")), hier)),
                 st.roots, new))

TransactionLine(st, l) ==
    LET code == l[1]
        info == Tail(l)
    IN  CASE code = "D" -> IF IsNumber(info) THEN [st EXCEPT !.date = <<ParseNumber(info)>>]
                           ELSE Raise(st, "ValueError")
          [] code = "T" -> IF IsNumber(info) THEN [st EXCEPT !.amount = <<ParseNumber(info)>>]
                           ELSE Raise(st, "ValueError")
          [] code = "N" -> IF IsNumber(info) THEN [st EXCEPT !.check_number = <<ParseNumber(info)>>]
                           ELSE Raise(st, "ValueError")
          [] code = "E" -> Raise(st, "AttributeError")
          [] code = "L" -> TransactionCategoryLine(st, info)
          [] OTHER      -> st

RECURSIVE TransactionLines(_, _, _)
TransactionLines(st, lines, i) ==
    IF i > Len(lines) \/ st.raised # "" THEN st
    ELSE IF lines[i] = <<>> THEN TransactionLines(st, lines, i + 1)
    ELSE TransactionLines(TransactionLine(st, lines[i]), lines, i + 1)

\* Transaction.from_list(lst): the record, the arena with the categories it
\* created, its dict of categories and its list of classes.
TransactionFromList(nodes, lines) ==
    LET start == [date |-> <<>>, amount |-> <<>>, category |-> <<>>,
                  check_number |-> <<>>, to_account |-> <<>>, last_category |-> <<>>,
                  nodes |-> nodes, roots |-> <<>>, classes |-> <<>>, raised |-> ""]
        Made(st) ==
            [raised |-> IF st.raised # "" THEN st.raised
                        ELSE IF st.date = <<>> \/ st.amount = <<>> THEN "TypeError"
                        ELSE "",
             record |-> [kind |-> "Transaction", date |-> st.date, amount |-> st.amount,
                         category |-> IF st.category = <<>> THEN <<>>
                                      ELSE <<st.nodes[st.category[1]].hierarchy>>,
                         check_number |-> st.check_number, to_account |-> st.to_account,
                         action |-> <<>>, price |-> <<>>],
             nodes |-> st.nodes, categories |-> st.roots, classes |-> st.classes]
    IN  Made(TransactionLines(start, lines, 1))

\* Investment.from_list(lst)
InvestmentLine(st, l) ==
    LET code == l[1]
        info == Tail(l)
    IN  CASE code = "D" -> IF IsNumber(info) THEN [st EXCEPT !.date = <<ParseNumber(info)>>]
                           ELSE Raise(st, "ValueError")
          [] code = "T" -> IF IsNumber(info) THEN [st EXCEPT !.amount = <<ParseNumber(info)>>]
                           ELSE Raise(st, "ValueError")
          [] code = "I" -> IF IsNumber(info) THEN [st EXCEPT !.price = <<ParseNumber(info)>>]
                           ELSE Raise(st, "ValueError")
          [] code = "N" -> [st EXCEPT !.action = <<info>>]
          [] code = "L" -> [st EXCEPT !.to_account = <<info>>]
          [] OTHER      -> st

RECURSIVE InvestmentLines(_, _, _)
InvestmentLines(st, lines, i) ==
    IF i > Len(lines) \/ st.raised # "" THEN st
    ELSE IF lines[i] = <<>> THEN InvestmentLines(st, lines, i + 1)
    ELSE InvestmentLines(InvestmentLine(st, lines[i]), lines, i + 1)

InvestmentFromList(lines) ==
    LET start == [date |-> <<>>, amount |-> <<>>, action |-> <<>>, to_account |-> <<>>,
                  price |-> <<>>, raised |-> ""]
        Made(st) ==
            [raised |-> IF st.raised # "" THEN st.raised
                        ELSE IF st.date = <<>> THEN "TypeError" ELSE "",
             record |-> [kind |-> "Investment", date |-> st.date, amount |-> st.amount,
                         category |-> <<>>, check_number |-> <<>>, to_account |-> st.to_account,
                         action |-> st.action, price |-> st.price]]
    IN  Made(InvestmentLines(start, lines, 1))

\* Account.from_list(lst) and Account.__init__
VALID_ACCOUNT_TYPES ==
    {SubSeq(h, 7, Len(h)) : h \in {TypeCash, TypeBank, TypeCCard, TypeOthA, TypeOthL,
                                   TypeInvoice, TypeInvst}}

AccountLine(st, l) ==
    LET code == l[1]
        info == Tail(l)
    IN  CASE code = "N" -> [st EXCEPT !.name = <<info>>]
          [] code = "D" -> [st EXCEPT !.desc = <<info>>]
          [] code = "T" -> [st EXCEPT !.account_type = <<info>>]
          [] code = "L" -> IF IsNumber(info) THEN [st EXCEPT !.credit_limit = <<ParseNumber(info)>>]
                           ELSE Raise(st, "InvalidOperation")
          [] OTHER      -> st

RECURSIVE AccountLines(_, _, _)
AccountLines(st, lines, i) ==
    IF i > Len(lines) \/ st.raised # "" THEN st
    ELSE IF lines[i] = <<>> THEN AccountLines(st, lines, i + 1)
    ELSE AccountLines(AccountLine(st, lines[i]), lines, i + 1)

\* Account(name, desc): no transactions yet.
NewAccount(name, desc, type, limit) ==
    [name |-> name, desc |-> desc, account_type |-> type, credit_limit |-> limit,
     transactions |-> <<>>]

AccountFromList(lines) ==
    LET start == [name |-> <<>>, desc |-> <<>>, account_type |-> <<>>,
                  credit_limit |-> <<>>, raised |-> ""]
        Made(st) ==
            [raised |-> IF st.raised # "" THEN st.raised
                        ELSE IF st.name = <<>> THEN "TypeError"
                        ELSE IF st.account_type \notin {<<>>, <<<<>>>>}
                                /\ st.account_type[1] \notin VALID_ACCOUNT_TYPES THEN "ValueError"
                        ELSE "",
             account |-> NewAccount(IF st.name = <<>> THEN <<>> ELSE st.name[1],
                                    st.desc, st.account_type, st.credit_limit)]
    IN  Made(AccountLines(start, lines, 1))

\* Account.add_transaction(transaction, header): the dict of lists is a
\* sequence of [key, list] items.
AddTransaction(account, record, header) ==
    LET key == LastOf(SplitOn(header, ":"))
        ts  == account.transactions
    IN  [account EXCEPT !.transactions =
            IF \E i \in 1..Len(ts) : ts[i].key = key
            THEN [i \in 1..Len(ts) |->
                     IF ts[i].key = key THEN [ts[i] EXCEPT !.list = Append(@, record)] ELSE ts[i]]
            ELSE Append(ts, [key |-> key, list |-> <<record>>])]

\* Category.from_list(lst): a new object at the end of the arena.
CategoryLine(st, l) ==
    LET code == l[1]
        info == Tail(l)
    IN  CASE code = "N" -> [st EXCEPT !.name = <<LastOf(SplitOn(info, ":"))>>, !.hierarchy = <<info>>]
          [] code = "D" -> [st EXCEPT !.desc = <<info>>]
          [] code = "T" -> [st EXCEPT !.tax_related = <<Lower(info) # <<"f", "a", "l", "s", "e">>>>]
          [] code = "E" -> [st EXCEPT !.expense = TRUE, !.income = FALSE]
          [] code = "I" -> [st EXCEPT !.expense = FALSE, !.income = TRUE]
          [] OTHER      -> st

RECURSIVE CategoryLines(_, _, _)
CategoryLines(st, lines, i) ==
    IF i > Len(lines) THEN st
    ELSE IF lines[i] = <<>> THEN CategoryLines(st, lines, i + 1)
    ELSE CategoryLines(CategoryLine(st, lines[i]), lines, i + 1)

CategoryFromList(lines) ==
    LET start == [name |-> <<>>, hierarchy |-> <<>>, desc |-> <<>>, tax_related |-> <<>>,
                  expense |-> TRUE, income |-> FALSE]
        Made(st) ==
            [raised |-> IF st.name = <<>> THEN "TypeError" ELSE "",
             category |-> IF st.name = <<>> THEN CategoryObject(<<>>, <<>>)
                          ELSE [CategoryObject(st.name[1], st.hierarchy[1]) EXCEPT
                                   !.desc = st.desc, !.tax_related = st.tax_related,
                                   !.expense = st.expense, !.income = st.income]]
    IN  Made(CategoryLines(start, lines, 1))

\* Class.from_list(lst)
RECURSIVE ClassLines(_, _, _)
ClassLines(st, lines, i) ==
    IF i > Len(lines) THEN st
    ELSE IF lines[i] = <<>> THEN ClassLines(st, lines, i + 1)
    ELSE LET code == lines[i][1]
             info == Tail(lines[i])
             st1  == CASE code = "N" -> [st EXCEPT !.name = <<info>>]
                       [] code = "D" -> [st EXCEPT !.desc = <<info>>]
                       [] OTHER      -> st
         IN  ClassLines(st1, lines, i + 1)

ClassFromList(lines) ==
    LET start == [name |-> <<>>, desc |-> <<>>]
        Made(st) ==
            [raised |-> IF st.name \in {<<>>, <<<<>>>>} THEN "RuntimeError" ELSE "",
             class  |-> [name |-> IF st.name = <<>> THEN <<>> ELSE st.name[1], desc |-> st.desc]]
    IN  Made(ClassLines(start, lines, 1))

\* Security.from_list(lst): name, symbol and type, all optional.
RECURSIVE SecurityLines(_, _, _)
SecurityLines(st, lines, i) ==
    IF i > Len(lines) THEN st
    ELSE IF lines[i] = <<>> THEN SecurityLines(st, lines, i + 1)
    ELSE LET code == lines[i][1]
             info == Tail(lines[i])
             st1  == CASE code = "N" -> [st EXCEPT !.name = <<info>>]
                       [] code = "S" -> [st EXCEPT !.symbol = <<info>>]
                       [] code = "T" -> [st EXCEPT !.type = <<info>>]
                       [] OTHER      -> st
         IN  SecurityLines(st1, lines, i + 1)

SecurityFromList(lines) ==
    SecurityLines([name |-> <<>>, symbol |-> <<>>, type |-> <<>>], lines, 1)

\* ---- Qif.parse.  A dict of accounts, classes or securities is a sequence
\* of [key, value] items in insertion order.  A security is stored under its
\* name, which may be None.
NameKey(x) == IF x.name = <<>> THEN <<"None">> ELSE x.name[1]

Put(d, k, v) ==
    IF \E i \in 1..Len(d) : d[i].key = k
    THEN [i \in 1..Len(d) |-> IF d[i].key = k THEN [key |-> k, value |-> v] ELSE d[i]]
    ELSE Append(d, [key |-> k, value |-> v])

Get(d, k) == d[CHOOSE i \in 1..Len(d) : d[i].key = k].value

\* The local variables of parse before its loop; "used" records, per section
\* met, the header it was processed under (<<>> for a skipped empty section).
ParserStart ==
    [accounts |-> <<>>, last_account |-> <<>>, nodes |-> <<>>, categories |-> <<>>,
     classes |-> <<>>, securities |-> <<>>, last_header |-> <<>>, used |-> <<>>,
     raised |-> ""]

\* The first line of the section that is neither blank nor a comment, 0 when
\* the search runs off the end of the section (IndexError).
HeaderIndex(section) ==
    LET ok == {i \in 1..Len(section) : ~IsBlank(section[i]) /\ section[i][1] # "#"}
    IN  IF ok = {} THEN 0 ELSE CHOOSE i \in ok : \A j \in ok : i <= j

\* categories.update(new_categories)
RECURSIVE UpdateRoots(_, _, _)
UpdateRoots(roots, new, i) ==
    IF i > Len(new) THEN roots
    ELSE UpdateRoots(DictSet(roots, new[i].key, new[i].node), new, i + 1)

\* A loop that would remember only the first header it met.
FirstHeaderKept(old, header_line) == IF old = <<>> THEN <<header_line>> ELSE old

\* "last_header = header_line" at the end of the loop body.
LastHeaderAfter(old, header_line) == <<header_line>>

\* The branches of the loop body, tried in the order of the code.
CatSection(ps, section) ==
    LET new == Len(ps.nodes) + 1
        Created(r) == [ps EXCEPT !.nodes = r.nodes, !.categories = r.roots]
        Read(c) == IF c.raised # "" THEN Raise(ps, c.raised)
                   ELSE Created(CreateCategories(Append(ps.nodes, c.category), ps.categories, new))
    IN  Read(CategoryFromList(section))

ClassSection(ps, section) ==
    LET Read(c) == IF c.raised # "" THEN Raise(ps, c.raised)
                   ELSE [ps EXCEPT !.classes = Put(@, c.class.name, c.class)]
    IN  Read(ClassFromList(section))

SecuritySection(ps, section) ==
    LET Read(x) == [ps EXCEPT !.securities = Put(@, NameKey(x), x)]
    IN  Read(SecurityFromList(section))

AccountSection(ps, section) ==
    LET Read(a) == IF a.raised # "" THEN Raise(ps, a.raised)
                   ELSE [ps EXCEPT !.accounts = Put(@, a.account.name, a.account),
                                   !.last_account = <<a.account.name>>]
    IN  Read(AccountFromList(section))

DefaultAccountSection(ps) ==
    [ps EXCEPT !.accounts = Put(@, DefaultAccountName,
                                NewAccount(DefaultAccountName, <<DefaultAccountDesc>>, <<>>, <<>>)),
               !.last_account = <<DefaultAccountName>>]

HasLastAccount(ps) ==
    ps.last_account # <<>> /\ \E i \in 1..Len(ps.accounts) : ps.accounts[i].key = ps.last_account[1]

InvestmentSection(ps, section) ==
    LET Read(r) ==
            IF r.raised # "" THEN Raise(ps, r.raised)
            ELSE IF ~HasLastAccount(ps) THEN Raise(ps, "KeyError")
            ELSE [ps EXCEPT !.accounts =
                     Put(@, ps.last_account[1],
                         AddTransaction(Get(@, ps.last_account[1]), r.record,
                                        <<"I", "n", "v", "s", "t">>))]
    IN  Read(InvestmentFromList(section))

TransactionSection(ps, section, header_line) ==
    LET Read(r) ==
            IF r.raised # "" THEN Raise(ps, r.raised)
            ELSE IF ~HasLastAccount(ps) THEN Raise(ps, "KeyError")
            ELSE IF r.classes # <<>> THEN Raise(ps, "TypeError")
            ELSE [ps EXCEPT !.accounts =
                     Put(@, ps.last_account[1],
                         AddTransaction(Get(@, ps.last_account[1]), r.record,
                                        Without(header_line, " "))),
                            !.nodes = r.nodes,
                            !.categories = UpdateRoots(@, r.categories, 1)]
    IN  Read(TransactionFromList(ps.nodes, section))

Dispatch(ps, section, header_line) ==
    IF Contains(TypeCat, header_line) THEN CatSection(ps, section)
    ELSE IF Contains(TypeClass, header_line) THEN ClassSection(ps, section)
    ELSE IF Contains(TypeSecurity, header_line) THEN SecuritySection(ps, section)
    ELSE IF Contains(BangAccount, header_line) THEN AccountSection(ps, section)
    ELSE IF Contains(BangType, header_line) /\ ps.accounts = <<>> THEN DefaultAccountSection(ps)
    ELSE IF Contains(TypeInvst, header_line) THEN InvestmentSection(ps, section)
    ELSE IF Lower(Without(header_line, " ")) \in VALID_TRANSACTION_ACCOUNT_TYPES
         THEN TransactionSection(ps, section, header_line)
    ELSE ps

\* One turn of "for section in sections".
ParseSection(ps, section) ==
    IF ps.raised # "" THEN ps
    ELSE IF section = <<>> THEN [ps EXCEPT !.used = Append(@, <<>>)]
    ELSE LET Under(header_line) ==
                 LET Done(ps1) ==
                         IF ps1.raised # "" THEN ps1
                         ELSE [ps1 EXCEPT !.last_header =
                                              LastHeaderAfter(ps.last_header, header_line)]
                 IN  Done(Dispatch([ps EXCEPT !.used = Append(@, <<header_line>>)],
                                   section, header_line))
             Headed(k) ==
                 IF k = 0 THEN Raise(ps, "IndexError")
                 ELSE IF section[k][1] # "!" /\ ps.last_header = <<>>
                      THEN Raise(ps, "ParserException")
                 ELSE Under(IF section[k][1] # "!" THEN ps.last_header[1] ELSE section[k])
         IN  Headed(HeaderIndex(section))

RECURSIVE ParseSections(_, _, _)
ParseSections(ps, sections, i) ==
    IF i > Len(sections) THEN ps ELSE ParseSections(ParseSection(ps, sections[i]), sections, i + 1)

\* ---- Qif._read_qif and the split into sections.  The text of a file is the
\* sequence of its lines; "^" occurs in it only as a whole line.
\* f.read().strip().strip('\n'): the blank lines at both ends go, and the
\* last line loses its newline.
ReadQif(lines) ==
    LET keep == {i \in 1..Len(lines) : ~IsBlank(lines[i])}
    IN  IF keep = {} THEN <<>>
        ELSE SubSeq(lines, CHOOSE i \in keep : \A j \in keep : i <= j,
                           CHOOSE i \in keep : \A j \in keep : j <= i)

\* data.split('^\n'): a "^" line ends a section unless it is the last line of
\* the data, which has no newline after it.
RECURSIVE SplitSections(_, _, _)
SplitSections(data, i, section) ==
    IF i > Len(data) THEN <<section>>
    ELSE IF data[i] = <<"^">> /\ i < Len(data)
         THEN <<section>> \o SplitSections(data, i + 1, <<>>)
    ELSE SplitSections(data, i + 1, Append(section, data[i]))

SectionsOf(lines) == SplitSections(ReadQif(lines), 1, <<>>)

\* Qif.parse(filepath) on a file with these lines.
Parse(lines) ==
    IF ReadQif(lines) = <<>> THEN Raise(ParserStart, "ParserException")
    ELSE ParseSections(ParserStart, SectionsOf(lines), 1)

\* ---- Qif.to_qif: the lines of the text it returns.
RECURSIVE Concat(_)
Concat(xss) == IF xss = <<>> THEN <<>> ELSE xss[1] \o Concat(Tail(xss))

PyBool(b) == IF b THEN <<"T", "r", "u", "e">> ELSE <<"F", "a", "l", "s", "e">>

PyStr(o) == IF o = <<>> THEN <<"N", "o", "n", "e">> ELSE o[1]

\* "if text:" for an optional str
Truthy(o) == o # <<>> /\ o[1] # <<>>

\* One line "code + text" when the condition holds.
LineIf(cond, code, text) == IF cond THEN <<<<code>> \o text>> ELSE <<>>

ClassesText(classes) ==
    IF classes = <<>> THEN <<>>
    ELSE <<TypeClass>> \o
         Concat([i \in 1..Len(classes) |->
                    <<<<"N">> \o classes[i].value.name>>
                    \o LineIf(Truthy(classes[i].value.desc), "D", PyStr(classes[i].value.desc))
                    \o <<<<"^">>>>])

SecuritiesText(securities) ==
    IF securities = <<>> THEN <<>>
    ELSE <<TypeSecurity>> \o
         Concat([i \in 1..Len(securities) |->
                    <<<<"N">> \o PyStr(securities[i].value.name)>>
                    \o LineIf(Truthy(securities[i].value.symbol), "S", PyStr(securities[i].value.symbol))
                    \o LineIf(Truthy(securities[i].value.type), "T", PyStr(securities[i].value.type))
                    \o <<<<"^">>>>])

\* categories_to_visit, extended with the children of each category visited.
RECURSIVE CategoriesToVisit(_, _, _)
CategoriesToVisit(nodes, list, i) ==
    IF i > Len(list) THEN list
    ELSE CategoriesToVisit(nodes, list \o nodes[list[i]].children, i + 1)

CategoryText(c) ==
    <<<<"N">> \o c.hierarchy>>
    \o LineIf(Truthy(c.desc), "D", PyStr(c.desc))
    \o LineIf(c.tax_related # <<>>, "T", IF c.tax_related = <<>> THEN <<>> ELSE PyBool(c.tax_related[1]))
    \o <<<<"E">> \o PyBool(c.expense)>>
    \o <<<<"I">> \o PyBool(c.income)>>
    \o <<<<"^">>>>

CategoriesText(nodes, categories) ==
    IF categories = <<>> THEN <<>>
    ELSE LET list == CategoriesToVisit(nodes, [i \in 1..Len(categories) |-> categories[i].node], 1)
         IN  <<TypeCat>> \o Concat([i \in 1..Len(list) |-> CategoryText(nodes[list[i]])])

NumberIf(o, code) == IF o = <<>> THEN <<>> ELSE <<<<code>> \o FormatNumber(o[1])>>

TransactionText(t, header) ==
    <<<<"D">> \o FormatNumber(t.date[1])>>
    \o NumberIf(t.amount, "T")
    \o (IF ~Contains(<<"I", "n", "v", "s", "t">>, header)
        THEN LineIf(t.category # <<>>, "L", PyStr(t.category))
             \o LineIf(Truthy(t.to_account), "L", <<"[">> \o PyStr(t.to_account) \o <<"]">>)
             \o NumberIf(t.check_number, "N")
        ELSE LineIf(Truthy(t.action), "N", PyStr(t.action))
             \o NumberIf(t.price, "I")
             \o LineIf(Truthy(t.to_account), "L", PyStr(t.to_account)))
    \o <<<<"^">>>>

BucketText(b) ==
    <<BangType \o <<":">> \o b.key>>
    \o Concat([k \in 1..Len(b.list) |-> TransactionText(b.list[k], b.key)])

AccountText(a) ==
    <<BangAccount, <<"N">> \o a.name>>
    \o LineIf(Truthy(a.desc), "D", PyStr(a.desc))
    \o LineIf(Truthy(a.account_type), "T", PyStr(a.account_type))
    \o NumberIf(a.credit_limit, "L")
    \o <<<<"^">>>>
    \o Concat([j \in 1..Len(a.transactions) |-> BucketText(a.transactions[j])])

ToQif(q) ==
    ClassesText(q.classes)
    \o SecuritiesText(q.securities)
    \o CategoriesText(q.nodes, q.categories)
    \o Concat([i \in 1..Len(q.accounts) |-> AccountText(q.accounts[i].value)])

\* ---- Files.  The sections a file of the model is written from.
MaxSections == 3

Txn1 == <<<<"D", "1">>, <<"T", "1">>>>

Txn2 == <<<<"D", "2">>, <<"T", "2">>, <<"L", "A", ":", "B">>>>

\* str.upper() on the letters that occur.
Upper(s) ==
    [i \in 1..Len(s) |->
        IF \E k \in DOMAIN LowerOf : LowerOf[k] = s[i]
        THEN CHOOSE k \in DOMAIN LowerOf : LowerOf[k] = s[i] ELSE s[i]]

TransactionHeaders == {TypeCash, TypeBank, TypeCCard, TypeOthA, TypeOthL, TypeInvoice}

\* The six headers as they are, in lower case, in upper case and without
\* their inner space.
HeaderVariants ==
    UNION {{h, Lower(h), Upper(h), Without(h, " ")} : h \in TransactionHeaders}

AccountSections == {<<BangAccount, <<"N", "X">>>>, <<BangAccount, <<"N", "Y">>>>}

HeaderlessSections == {Txn1, Txn2, <<<<"#">>, <<>>>> \o Txn1, <<<<"N", "Y">>>>}

SectionMenu ==
    {<<>>,
     <<TypeCat, <<"N", "A">>>>, <<TypeCat, <<"N", "A", ":", "C">>>>,
     <<TypeClass, <<"N", "K">>>>, <<TypeSecurity, <<"N", "S">>>>,
     <<TypeInvst>> \o Txn1, <<TypeBank>> \o Txn2}
    \cup AccountSections \cup HeaderlessSections
    \cup {<<h>> \o Txn1 : h \in HeaderVariants}

Docs == UNION {[1..k -> SectionMenu] : k \in 0..MaxSections}

\* The lines of the file: every section is followed by its "^" line.
FileOf(d) == Concat([i \in 1..Len(d) |-> d[i] \o <<<<"^">>>>])

InitQif ==
    /\ InitCatVars
    /\ InitTxnVars
    /\ InitOtherVars
    /\ doc \in Docs
    /\ qif = <<>>
    /\ reparsed = <<>>
    /\ last = [op |-> "init"]
    /\ calls = 0

\* q = Qif.parse(file)
DoParse ==
    /\ qif = <<>>
    /\ qif' = <<Parse(FileOf(doc))>>
    /\ last' = [op |-> "parse"]
    /\ calls' = calls + 1
    /\ UNCHANGED <<catVars, txnVars, doc, reparsed, otherVars>>

\* Qif.parse of a file holding q.to_qif()
DoToQifParse ==
    /\ qif # <<>>
    /\ qif[1].raised = ""
    /\ reparsed = <<>>
    /\ reparsed' = <<Parse(ToQif(qif[1]))>>
    /\ last' = [op |-> "to_qif"]
    /\ calls' = calls + 1
    /\ UNCHANGED <<catVars, txnVars, doc, qif, otherVars>>

NextQif == DoParse \/ DoToQifParse

SpecQif == InitQif /\ [][NextQif]_vars

\* The same program on files written from one section of each kind of header.
CoreMenu ==
    (SectionMenu \ {<<h>> \o Txn1 : h \in HeaderVariants})
    \cup {<<TypeBank>> \o Txn1, <<Lower(TypeBank)>> \o Txn1, <<TypeOthA>> \o Txn1}

CoreDocs == UNION {[1..k -> CoreMenu] : k \in 0..MaxSections}

InitQifCore ==
    /\ InitCatVars
    /\ InitTxnVars
    /\ InitOtherVars
    /\ doc \in CoreDocs
    /\ qif = <<>>
    /\ reparsed = <<>>
    /\ last = [op |-> "init"]
    /\ calls = 0

SpecQifCore == InitQifCore /\ [][NextQif]_vars

\* The same program on files with sections that hold nothing but blank lines
\* and comments.
CommentSections == {<<<<"#", "c">>>>, <<<<>>>>, <<<<"#">>, <<>>>>, <<<<" ">>, <<"#", "c">>>>}

CommentMenu ==
    {<<>>, <<<<"#">>, <<>>>> \o Txn1, <<TypeCat, <<"N", "A">>>>, <<TypeBank>> \o Txn1,
     <<BangAccount, <<"N", "X">>>>}
    \cup CommentSections

CommentDocs == UNION {[1..k -> CommentMenu] : k \in 0..MaxSections}

InitQifComments ==
    /\ InitCatVars
    /\ InitTxnVars
    /\ InitOtherVars
    /\ doc \in CommentDocs
    /\ qif = <<>>
    /\ reparsed = <<>>
    /\ last = [op |-> "init"]
    /\ calls = 0

SpecQifComments == InitQifComments /\ [][NextQif]_vars

\* ---- What the properties of Part 3 speak about.
\* All records of an account, bucket after bucket.
RecordsOf(account) ==
    Concat([j \in 1..Len(account.transactions) |-> account.transactions[j].list])

\* The accounts of a Qif, dicts taken as sets of items.
AccountsOf(q) ==
    {[q.accounts[i].value EXCEPT !.transactions = {@[j] : j \in 1..Len(@)}] :
        i \in 1..Len(q.accounts)}

\* The hierarchies of all categories of a Qif, roots and descendants.
HierarchiesOf(q) ==
    LET list == CategoriesToVisit(q.nodes, [i \in 1..Len(q.categories) |-> q.categories[i].node], 1)
    IN  {q.nodes[list[i]].hierarchy : i \in 1..Len(list)}

ClassesOf(q) == {q.classes[i].value : i \in 1..Len(q.classes)}

\* A section with one of the six transaction headers or the investment
\* header, as the format spells them, and a complete record.
IsTransactionSection(s) ==
    s # <<>> /\ s[1] \in TransactionHeaders \cup {TypeInvst} /\ Tail(s) \in {Txn1, Txn2}

\* The sections of the file that belong in a bucket of the default account.
SectionsFor(key) ==
    LET Test(s) == Without(s[1], " ") = BangType \o <<":">> \o key
    IN  SelectSeq(doc, Test)

\* The parser's sections of the file written, and its outcome.
Sections == SectionsOf(FileOf(doc))

HasOwnHeader(s) == s # <<>> /\ HeaderIndex(s) # 0 /\ s[HeaderIndex(s)][1] = "!"

Headerless(s) == s # <<>> /\ HeaderIndex(s) # 0 /\ s[HeaderIndex(s)][1] # "!"

\* The header line of the nearest section before section i that has one of
\* its own, <<>> if there is none.
NearestHeader(S, i) ==
    LET J == {j \in 1..(i - 1) : HasOwnHeader(S[j])}
    IN  IF J = {} THEN <<>>
        ELSE LET j == CHOOSE k \in J : \A m \in J : m <= k
             IN  <<S[j][HeaderIndex(S[j])]>>

\* C7: for every Qif q obtained from a successful parse, parsing the text of
\* q.to_qif() succeeds and yields the same accounts (each with the same
\* transactions in the same order per account type), the same set of category
\* hierarchies and the same classes.
C7_ToQifRoundTrip ==
    reparsed # <<>>
        => /\ reparsed[1].raised = ""
           /\ AccountsOf(reparsed[1]) = AccountsOf(qif[1])
           /\ HierarchiesOf(reparsed[1]) = HierarchiesOf(qif[1])
           /\ ClassesOf(reparsed[1]) = ClassesOf(qif[1])

\* C8: parsing a file of N transaction or investment sections of recognised
\* types and no !Account section returns exactly one account, named
\* 'Quiffen Default Account', whose buckets together hold exactly N records in
\* file order: the section that creates the default account is appended too.
C8_DefaultAccountHoldsEverySection ==
    (/\ qif # <<>>
     /\ doc # <<>>
     /\ \A i \in 1..Len(doc) : IsTransactionSection(doc[i]))
        => /\ qif[1].raised = ""
           /\ Len(qif[1].accounts) = 1
           /\ qif[1].accounts[1].key = DefaultAccountName
           /\ Len(RecordsOf(qif[1].accounts[1].value)) = Len(doc)
           /\ \A j \in 1..Len(qif[1].accounts[1].value.transactions) :
                  LET b == qif[1].accounts[1].value.transactions[j]
                      from == SectionsFor(b.key)
                  IN  /\ Len(b.list) = Len(from)
                      /\ \A k \in 1..Len(from) :
                             b.list[k].date = <<ParseNumber(Tail(from[k][2]))>>

\* C9: each of the headers !Type:Cash, !Type:Bank, !Type:CCard, !Type:Oth A,
\* !Type:Oth L and !Type:Invoice, in any letter case and with or without its
\* inner space, is classified as a transaction section: after an !Account
\* section, the record of every such section is appended to that account, in
\* a bucket for the section's account type.
C9_TransactionHeadersRecognised ==
    (/\ qif # <<>>
     /\ Len(doc) >= 2
     /\ doc[1] \in AccountSections
     /\ \A i \in 2..Len(doc) : doc[i] \in {<<h>> \o Txn1 : h \in HeaderVariants})
        => /\ qif[1].raised = ""
           /\ Len(qif[1].accounts) = 1
           /\ Len(RecordsOf(qif[1].accounts[1].value)) = Len(doc) - 1
           /\ \A i \in 2..Len(doc) :
                  \E j \in 1..Len(qif[1].accounts[1].value.transactions) :
                     Lower(BangType \o <<":">> \o qif[1].accounts[1].value.transactions[j].key)
                        = Lower(Without(doc[i][1], " "))

\* C10: a section whose first non-blank, non-comment line does not start with
\* "!" is processed under the header of the nearest preceding section that
\* has one; if no earlier section supplied a header, parse raises and returns
\* no Qif.
C10_HeaderlessSectionUsesLastHeader ==
    qif # <<>>
        => \A i \in 1..Len(Sections) :
              Headerless(Sections[i])
                  => IF NearestHeader(Sections, i) = <<>>
                     THEN qif[1].raised # ""
                     ELSE Len(qif[1].used) >= i
                             => qif[1].used[i] = NearestHeader(Sections, i)

\* A parse that returned a Qif in which a headerless section, read under
\* !Type:Bank, put a second record into the Bank bucket of its account.
C10_HeaderlessRecordAppended ==
    /\ qif # <<>>
    /\ qif[1].raised = ""
    /\ \E i \in 2..Len(Sections) :
          /\ Headerless(Sections[i])
          /\ qif[1].used[i] = <<TypeBank>>
    /\ \E a \in 1..Len(qif[1].accounts) :
          \E j \in 1..Len(qif[1].accounts[a].value.transactions) :
             /\ qif[1].accounts[a].value.transactions[j].key = <<"B", "a", "n", "k">>
             /\ Len(qif[1].accounts[a].value.transactions[j].list) >= 2

\* The place of a header line in the order "categories, classes, accounts
\* with their transactions"; 0 for a header the order does not speak about.
HeaderRank(line) ==
    IF line = TypeCat THEN 1
    ELSE IF line = TypeClass THEN 2
    ELSE IF line = TypeSecurity THEN 0
    ELSE 3

\* The lines of a text from the i-th "!Account" line up to the next one.
AccountBlock(text, i) ==
    LET at   == {k \in 1..Len(text) : text[k] = BangAccount}
        Nth[n \in 1..(Len(text) + 1)] ==
            IF n = 1 THEN CHOOSE k \in at : \A m \in at : k <= m
            ELSE CHOOSE k \in at : k > Nth[n - 1] /\ \A m \in at : m > Nth[n - 1] => k <= m
    IN  SubSeq(text, Nth[i], IF i < Cardinality(at) THEN Nth[i + 1] - 1 ELSE Len(text))

\* C30: Qif.parse passes over every section that holds only blank lines and
\* lines starting with "#": whatever the file, the call never ends in an
\* IndexError from the loop that skips the leading blank and comment lines.
C30_CommentSectionsArePassedOver ==
    qif # <<>> => qif[1].raised # "IndexError"

\* C15: in the text of to_qif all category sections come before all class
\* sections, which come before all account sections, and the transaction
\* sections of each account directly follow the section of that account:
\* the block that starts at the i-th !Account line holds the section of the
\* i-th account and then one section per record of that account.
C15_ToQifSectionOrder ==
    (qif # <<>> /\ qif[1].raised = "") =>
        LET Ordered(q, text) ==
                /\ \A i, j \in 1..Len(text) :
                       (/\ i < j
                        /\ text[i] # <<>> /\ text[i][1] = "!" /\ HeaderRank(text[i]) # 0
                        /\ text[j] # <<>> /\ text[j][1] = "!" /\ HeaderRank(text[j]) # 0)
                       => HeaderRank(text[i]) <= HeaderRank(text[j])
                /\ Cardinality({k \in 1..Len(text) : text[k] = BangAccount}) = Len(q.accounts)
                /\ \A i \in 1..Len(q.accounts) :
                       LET InBlock(block) ==
                               /\ block[2] = <<"N">> \o q.accounts[i].value.name
                               /\ Cardinality({k \in 1..Len(block) : block[k] = <<"^">>})
                                      = 1 + Len(RecordsOf(q.accounts[i].value))
                       IN  InBlock(AccountBlock(text, i))
        IN  Ordered(qif[1], ToQif(qif[1]))

-----------------------------------------------------------------------------
(***************************************************************************)
(* Part 4.  The add_ and remove_ methods of Qif and its four accessors     *)
(* (quiffen/core/qif.py), on a Qif that Qif.parse returned.                *)
(***************************************************************************)

HasKey(d, k) == \E i \in 1..Len(d) : d[i].key = k

\* d.pop(k) for a key that is present: the dict without the item.
PopKey(d, k) == LET Keep(x) == x.key # k IN SelectSeq(d, Keep)

\* s.replace(sub, '') from position i on.
RECURSIVE ReplaceFrom(_, _, _)
ReplaceFrom(s, sub, i) ==
    IF i > Len(s) THEN <<>>
    ELSE IF i + Len(sub) - 1 <= Len(s) /\ SubSeq(s, i, i + Len(sub) - 1) = sub
         THEN ReplaceFrom(s, sub, i + Len(sub))
    ELSE <<s[i]>> \o ReplaceFrom(s, sub, i + 1)

\* The properties accounts, categories, classes and securities.  The name
\* "classes" is bound last by "@securities.setter def classes", a property
\* whose getter is that of securities.
AccountsProperty(q) == q.accounts

CategoriesProperty(q) == q.categories

ClassesProperty(q) == q.securities

SecuritiesProperty(q) == q.securities

\* Qif.add_account, add_class, add_security: the outcome is the Qif and the
\* exception raised, "" if none.
QifAddAccount(q, a) == [q |-> [q EXCEPT !.accounts = Put(@, a.name, a)], raised |-> ""]

QifAddClass(q, c) == [q |-> [q EXCEPT !.classes = Put(@, c.name, c)], raised |-> ""]

QifAddSecurity(q, x) == [q |-> [q EXCEPT !.securities = Put(@, NameKey(x), x)], raised |-> ""]

\* Qif.add_category with a new Category(name): the object joins the arena.
QifAddCategory(q, name) ==
    [q |-> [q EXCEPT !.nodes = Append(@, CategoryObject(name, name)),
                     !.categories = DictSet(@, name, Len(q.nodes) + 1)],
     raised |-> ""]

\* Qif.remove_account, remove_class, remove_security: dict.pop(name).
QifRemoveAccount(q, name) ==
    IF HasKey(q.accounts, name) THEN [q |-> [q EXCEPT !.accounts = PopKey(@, name)], raised |-> ""]
    ELSE [q |-> q, raised |-> "KeyError"]

QifRemoveClass(q, name) ==
    IF HasKey(q.classes, name) THEN [q |-> [q EXCEPT !.classes = PopKey(@, name)], raised |-> ""]
    ELSE [q |-> q, raised |-> "KeyError"]

QifRemoveSecurity(q, name) ==
    IF HasKey(q.securities, name)
    THEN [q |-> [q EXCEPT !.securities = PopKey(@, name)], raised |-> ""]
    ELSE [q |-> q, raised |-> "KeyError"]

\* "child.parent = new_parent": the setter adds the child to a parent that has
\* no child of its name.
SetOldParent(nodes, c, new_parent) ==
    LET n1 == [nodes EXCEPT ![c].parent = new_parent]
    IN  IF new_parent # <<>> /\ ~HasChildNamed(n1, new_parent[1], n1[c].name)
        THEN OldAddChild(n1, new_parent[1], c)
        ELSE n1

\* remove_category, the loop "for child in children_to_visit" from child i on:
\* the arena and the exception that ended the loop, "" if none.
RECURSIVE RemoveCategoryChildren(_, _, _)
RemoveCategoryChildren(nodes, cat, i) ==
    IF i > Len(nodes[cat].children) THEN [nodes |-> nodes, raised |-> ""]
    ELSE LET child == nodes[cat].children[i]
             hier  == ReplaceFrom(nodes[child].hierarchy, nodes[cat].name \o <<":">>, 1)
         IN  IF nodes[child].children # <<>> THEN [nodes |-> nodes, raised |-> "TypeError"]
             ELSE IF nodes[child].hierarchy # <<>> /\ LastOf(SplitOn(hier, ":")) # nodes[child].name
                  THEN [nodes |-> nodes, raised |-> "RuntimeError"]
             ELSE RemoveCategoryChildren(
                      SetOldParent([nodes EXCEPT ![child].hierarchy = hier], child, nodes[cat].parent),
                      cat, i + 1)

\* remove_category, "parent = category.parent" to the return.
DetachCategory(nodes, cat) ==
    IF nodes[cat].parent = <<>> THEN [nodes |-> nodes, raised |-> ""]
    ELSE LET p   == nodes[cat].parent[1]
             at  == {i \in 1..Len(nodes[p].children) :
                        nodes[nodes[p].children[i]].name = nodes[cat].name}
             idx == CHOOSE i \in at : \A j \in at : i <= j
         IN  IF at = {} THEN [nodes |-> nodes, raised |-> "ValueError"]
             ELSE [nodes |-> [nodes EXCEPT
                                 ![p].children = SubSeq(@, 1, idx - 1)
                                                 \o SubSeq(@, idx + 1, Len(@))
                                                 \o nodes[cat].children,
                                 ![cat].parent = <<>>],
                   raised |-> ""]

\* remove_category for a name that is no key: the first category of that name
\* in the visiting order, 0 if the loop ends without one.
FirstNamed(nodes, list, name) ==
    LET at == {i \in 1..Len(list) : nodes[list[i]].name = name}
    IN  IF at = {} THEN 0 ELSE list[CHOOSE i \in at : \A j \in at : i <= j]

\* categories.update({category.name: category for category in children})
RECURSIVE UpdateWithChildren(_, _, _, _)
UpdateWithChildren(nodes, roots, kids, i) ==
    IF i > Len(kids) THEN roots
    ELSE UpdateWithChildren(nodes, DictSet(roots, nodes[kids[i]].name, kids[i]), kids, i + 1)

\* Qif.remove_category(category_name, keep_children)
QifRemoveCategory(q, name, keep_children) ==
    IF HasKey(q.categories, name)
    THEN [q |-> [q EXCEPT !.categories =
                    PopKey(IF keep_children
                           THEN UpdateWithChildren(q.nodes, @, q.nodes[DictGet(@, name)].children, 1)
                           ELSE @, name)],
          raised |-> ""]
    ELSE LET After(r) ==
                 IF r.raised # "" THEN [q |-> [q EXCEPT !.nodes = r.nodes], raised |-> r.raised]
                 ELSE [q |-> [q EXCEPT !.nodes = r.nodes], raised |-> ""]
             Loop(cat, r) ==
                 IF r.raised # "" THEN After(r) ELSE After(DetachCategory(r.nodes, cat))
             Visit(cat) ==
                 IF cat = 0 THEN [q |-> q, raised |-> ""]
                 ELSE Loop(cat, RemoveCategoryChildren(q.nodes, cat, 1))
         IN  Visit(FirstNamed(q.nodes,
                              CategoriesToVisit(q.nodes,
                                  [i \in 1..Len(q.categories) |-> q.categories[i].node], 1),
                              name))

\* ---- The Qif objects of this part: parsed from files of up to
\* MaxOpSections sections, then changed by up to MaxQifCalls - 1 calls.
MaxOpSections == 2

MaxQifCalls == 3

OpMenu ==
    {<<BangAccount, <<"N", "X">>>>,
     <<TypeCat, <<"N", "A", ":", "C">>>>, <<TypeCat, <<"N", "A", ":", "B", ":", "D">>>>,
     <<TypeClass, <<"N", "K">>>>, <<TypeSecurity, <<"N", "S">>, <<"S", "T">>>>,
     <<TypeBank>> \o Txn2}

OpDocs == UNION {[1..k -> OpMenu] : k \in 0..MaxOpSections}

\* The names the calls are made with, and the new objects that are added.
OpNames == {<<"X">>, <<"A">>, <<"B">>, <<"K">>, <<"S">>, <<"Z">>}

NewAccounts == {NewAccount(<<"X">>, <<<<"d">>>>, <<>>, <<>>), NewAccount(<<"Z">>, <<>>, <<>>, <<>>)}

NewClasses == {[name |-> <<"K">>, desc |-> <<<<"d">>>>], [name |-> <<"Z">>, desc |-> <<>>]}

NewSecurities ==
    {[name |-> <<<<"S">>>>, symbol |-> <<<<"T">>>>, type |-> <<<<"d">>>>],
     [name |-> <<<<"Z">>>>, symbol |-> <<<<"Z">>>>, type |-> <<>>]}

InitQifOps ==
    /\ InitCatVars
    /\ InitTxnVars
    /\ InitOtherVars
    /\ doc \in OpDocs
    /\ qif = <<>>
    /\ reparsed = <<>>
    /\ last = [op |-> "init", name |-> <<>>, arg |-> <<>>, keep |-> FALSE, raised |-> ""]
    /\ calls = 0

\* A call on the parsed Qif: what it leaves, and what it raised.
QifCommit(r, op, name, arg, keep) ==
    /\ qif # <<>>
    /\ qif[1].raised = ""
    /\ calls < MaxQifCalls
    /\ qif' = <<r.q>>
    /\ last' = [op |-> op, name |-> name, arg |-> arg, keep |-> keep, raised |-> r.raised]
    /\ calls' = calls + 1
    /\ UNCHANGED <<catVars, txnVars, doc, reparsed, otherVars>>

DoQifAddAccount ==
    \E a \in NewAccounts :
        qif # <<>> /\ QifCommit(QifAddAccount(qif[1], a), "add_account", a.name, a, FALSE)

DoQifAddCategory ==
    \E name \in {<<"A">>, <<"Z">>} :
        qif # <<>> /\ QifCommit(QifAddCategory(qif[1], name), "add_category", name, Len(qif[1].nodes) + 1, FALSE)

DoQifAddClass ==
    \E c \in NewClasses :
        qif # <<>> /\ QifCommit(QifAddClass(qif[1], c), "add_class", c.name, c, FALSE)

DoQifAddSecurity ==
    \E x \in NewSecurities :
        qif # <<>> /\ QifCommit(QifAddSecurity(qif[1], x), "add_security", x.symbol[1], x, FALSE)

DoQifRemoveAccount ==
    \E name \in OpNames :
        qif # <<>> /\ QifCommit(QifRemoveAccount(qif[1], name), "remove_account", name, <<>>, FALSE)

DoQifRemoveCategory ==
    \E name \in OpNames, keep \in BOOLEAN :
        qif # <<>> /\ QifCommit(QifRemoveCategory(qif[1], name, keep), "remove_category", name, <<>>, keep)

DoQifRemoveClass ==
    \E name \in OpNames :
        qif # <<>> /\ QifCommit(QifRemoveClass(qif[1], name), "remove_class", name, <<>>, FALSE)

DoQifRemoveSecurity ==
    \E name \in OpNames :
        qif # <<>> /\ QifCommit(QifRemoveSecurity(qif[1], name), "remove_security", name, <<>>, FALSE)

NextQifOps ==
    \/ DoParse
    \/ DoQifAddAccount \/ DoQifAddCategory \/ DoQifAddClass \/ DoQifAddSecurity
    \/ DoQifRemoveAccount \/ DoQifRemoveCategory \/ DoQifRemoveClass \/ DoQifRemoveSecurity

SpecQifOps == InitQifOps /\ [][NextQifOps]_vars

\* ---- What the properties of Part 4 speak about.
\* The categories of the forest, roots first.
Forest(q) ==
    CategoriesToVisit(q.nodes, [i \in 1..Len(q.categories) |-> q.categories[i].node], 1)

\* The four mappings of a Qif; the categories with the trees they hold.
Mappings(q) == [accounts |-> q.accounts, classes |-> q.classes, securities |-> q.securities,
                categories |-> q.categories, nodes |-> q.nodes]

\* C11: remove_account, remove_category, remove_class and remove_security,
\* called with a name that is not present (for a category: the name of no
\* category of the forest), raise KeyError and leave the four mappings as
\* they were.
C11_RemoveAbsentRaisesKeyError ==
    [][(/\ calls' = calls + 1
        /\ \/ last'.op = "remove_account" /\ ~HasKey(qif[1].accounts, last'.name)
           \/ last'.op = "remove_class" /\ ~HasKey(qif[1].classes, last'.name)
           \/ last'.op = "remove_security" /\ ~HasKey(qif[1].securities, last'.name)
           \/ /\ last'.op = "remove_category"
              /\ \A i \in 1..Len(Forest(qif[1])) : qif[1].nodes[Forest(qif[1])[i]].name # last'.name)
       => (last'.raised = "KeyError" /\ Mappings(qif'[1]) = Mappings(qif[1]))]_vars

\* C12: each of add_account, add_category, add_class and add_security changes
\* only the mapping of its own kind, and afterwards the accessor of that kind
\* maps the key of the entity (its name; for a security its symbol) to the
\* entity.
C12_AddStoresUnderKey ==
    [][calls' = calls + 1 =>
       /\ last'.op = "add_account" =>
            /\ [Mappings(qif'[1]) EXCEPT !.accounts = <<>>] = [Mappings(qif[1]) EXCEPT !.accounts = <<>>]
            /\ HasKey(AccountsProperty(qif'[1]), last'.name)
            /\ Get(AccountsProperty(qif'[1]), last'.name) = last'.arg
       /\ last'.op = "add_category" =>
            /\ [Mappings(qif'[1]) EXCEPT !.categories = <<>>, !.nodes = <<>>]
                   = [Mappings(qif[1]) EXCEPT !.categories = <<>>, !.nodes = <<>>]
            /\ HasKey(CategoriesProperty(qif'[1]), last'.name)
            /\ DictGet(CategoriesProperty(qif'[1]), last'.name) = last'.arg
       /\ last'.op = "add_class" =>
            /\ [Mappings(qif'[1]) EXCEPT !.classes = <<>>] = [Mappings(qif[1]) EXCEPT !.classes = <<>>]
            /\ HasKey(ClassesProperty(qif'[1]), last'.name)
            /\ Get(ClassesProperty(qif'[1]), last'.name) = last'.arg
       /\ last'.op = "add_security" =>
            /\ [Mappings(qif'[1]) EXCEPT !.securities = <<>>] = [Mappings(qif[1]) EXCEPT !.securities = <<>>]
            /\ HasKey(SecuritiesProperty(qif'[1]), last'.name)
            /\ Get(SecuritiesProperty(qif'[1]), last'.name) = last'.arg]_vars

\* C18: after Qif.remove_category(name, keep_children=True) for a root
\* category, name is no key of the categories mapping, and every former
\* child of the removed category is a key of the mapping and a root: it has
\* no parent, and the removed name is no component of its hierarchy nor of
\* the hierarchy of any category below it.
C18_RemoveRootKeepsChildrenAsRoots ==
    [][(/\ calls' = calls + 1
        /\ last'.op = "remove_category"
        /\ last'.keep
        /\ last'.raised = ""
        /\ HasKey(qif[1].categories, last'.name))
       => LET Kept(q, root, name) ==
                  /\ ~HasKey(q.categories, name)
                  /\ \A i \in 1..Len(q.nodes[root].children) :
                         LET g == q.nodes[root].children[i]
                         IN  /\ HasKey(q.categories, q.nodes[g].name)
                             /\ DictGet(q.categories, q.nodes[g].name) = g
                             /\ q.nodes[g].parent = <<>>
                             /\ \A d \in SeqToSet(CategoriesToVisit(q.nodes, <<g>>, 1)) :
                                    name \notin SeqToSet(SplitOn(q.nodes[d].hierarchy, ":"))
          IN  Kept(qif'[1], DictGet(qif[1].categories, last'.name), last'.name)]_vars

-----------------------------------------------------------------------------
(***************************************************************************)
(* Part 5.  Custom fields (quiffen/core/base.py).  A Field is a record     *)
(* [line_code, attr, type]; a line code is a sequence of characters.       *)
(***************************************************************************)

\* The method resolution order of each class.
Mro(c) == CASE c = "BaseModel"  -> <<"BaseModel">>
            [] c = "TestModel1" -> <<"TestModel1", "BaseModel">>
            [] c = "TestModel2" -> <<"TestModel2", "TestModel1", "BaseModel">>
            [] c = "TestModel3" -> <<"TestModel3", "BaseModel">>

\* getattr(cls, "__CUSTOM_FIELDS", []): the attribute of the first class of
\* the order that has one.
GetCustomFieldsAttr(cf, c) ==
    LET has == {i \in 1..Len(Mro(c)) : cf[Mro(c)[i]] # <<>>}
    IN  IF has = {} THEN <<>> ELSE cf[Mro(c)[CHOOSE i \in has : \A j \in has : i <= j]][1]

\* BaseModel.add_custom_field(line_code, attr, field_type) on class c; two
\* fields are equal when their line codes are.
AddCustomField(cf, c, new_field) ==
    LET lst == GetCustomFieldsAttr(cf, c)
    IN  [cf EXCEPT ![c] =
            <<IF \E i \in 1..Len(lst) : lst[i].line_code = new_field.line_code
              THEN [i \in 1..Len(lst) |->
                       IF lst[i].line_code # new_field.line_code THEN lst[i] ELSE new_field]
              ELSE Append(lst, new_field)>>]

\* str < str on the characters of line codes.
Ord == [A |-> 65, B |-> 66]

RECURSIVE StrLt(_, _)
StrLt(a, b) ==
    IF b = <<>> THEN FALSE
    ELSE IF a = <<>> THEN TRUE
    ELSE IF a[1] # b[1] THEN Ord[a[1]] < Ord[b[1]]
    ELSE StrLt(Tail(a), Tail(b))

\* Field.__lt__
FieldLt(x, y) ==
    Len(x.line_code) < Len(y.line_code) \/ StrLt(x.line_code, y.line_code)

Reversed(l) == [i \in 1..Len(l) |-> l[Len(l) + 1 - i]]

\* list.sort of a short list: the length of the run the list starts with
\* (count_run), n being the length found so far.
RECURSIVE CountRun(_, _, _)
CountRun(l, n, descending) ==
    IF n >= Len(l) \/ FieldLt(l[n + 1], l[n]) # descending THEN n
    ELSE CountRun(l, n + 1, descending)

\* list.sort of a short list: binarysort, l[1..start-1] being sorted.
RECURSIVE BinarySort(_, _)
BinarySort(l, start) ==
    IF start > Len(l) THEN l
    ELSE LET pivot == l[start]
             \* the bisection of "do ... while (l < r)"
             Bisect[lo \in 1..start, hi \in 1..start] ==
                 IF lo >= hi THEN lo
                 ELSE LET p == lo + ((hi - lo) \div 2)
                      IN  IF FieldLt(pivot, l[p]) THEN Bisect[lo, p] ELSE Bisect[p + 1, hi]
             at == Bisect[1, start]
         IN  BinarySort(SubSeq(l, 1, at - 1) \o <<pivot>> \o SubSeq(l, at, start - 1)
                        \o SubSeq(l, start + 1, Len(l)), start + 1)

\* sorted(lst, reverse=True) for fewer than 64 items: the list is reversed,
\* its leading run is found (and reversed if descending), the rest is inserted
\* item by item, and the outcome is reversed.
SortedReverse(lst) ==
    IF Len(lst) < 2 THEN lst
    ELSE LET l    == Reversed(lst)
             desc == FieldLt(l[2], l[1])
             n    == CountRun(l, 2, desc)
             run  == IF desc THEN Reversed(SubSeq(l, 1, n)) \o SubSeq(l, n + 1, Len(l)) ELSE l
         IN  Reversed(BinarySort(run, n + 1))

\* cls._get_custom_fields()
GetCustomFields(cf, c) == SortedReverse(GetCustomFieldsAttr(cf, c))

\* ---- The calls of this part: up to MaxFieldCalls registrations.
MaxFieldCalls == 3

FieldMenu ==
    {[line_code |-> lc, attr |-> at, type |-> "str"] :
        lc \in {<<"A">>, <<"B">>, <<"A", "A">>}, at \in {"test", "test2"}}

InitFields ==
    /\ InitCatVars
    /\ InitTxnVars
    /\ InitQifVars
    /\ InitOtherVars
    /\ last = [op |-> "init"]
    /\ calls = 0

\* c.add_custom_field(line_code, attr, field_type)
DoAddCustomField ==
    \E c \in Classes, new_field \in FieldMenu :
        /\ calls < MaxFieldCalls
        /\ customFields' = AddCustomField(customFields, c, new_field)
        /\ registered' = [registered EXCEPT ![c] = Append(@, new_field)]
        /\ last' = [op |-> "add_custom_field", cls |-> c, field |-> new_field]
        /\ calls' = calls + 1
        /\ UNCHANGED <<catVars, txnVars, qifVars, mergeVars, dateVars, laterVars>>

NextFields == DoAddCustomField

SpecFields == InitFields /\ [][NextFields]_vars

\* The fields registered on c or on an ancestor of c.
RegisteredFor(c) ==
    UNION {{registered[Mro(c)[k]][i] : i \in 1..Len(registered[Mro(c)[k]])} : k \in 1..Len(Mro(c))}

\* C13: after any sequence of add_custom_field calls, for every class C the
\* fields that C._get_custom_fields() returns are the fields registered on C
\* or on an ancestor of C, one entry per line code: every line code
\* registered on C or an ancestor is returned once, and nothing else is.
C13_CustomFieldsAreInherited ==
    \A c \in Classes :
        LET got == GetCustomFields(customFields, c)
        IN  /\ {got[i].line_code : i \in 1..Len(got)} = {f.line_code : f \in RegisteredFor(c)}
            /\ \A i \in 1..Len(got) : got[i] \in RegisteredFor(c)
            /\ \A i, j \in 1..Len(got) : got[i].line_code = got[j].line_code => i = j

\* C25: whatever fields are registered on a class, in whatever order, in the
\* list that _get_custom_fields returns no field comes after a field with a
\* shorter line code (so a line code is tried before its prefixes).
C25_LongestLineCodeFirst ==
    \A c \in Classes :
        LET got == GetCustomFields(customFields, c)
        IN  \A i, j \in 1..Len(got) :
                i < j => Len(got[i].line_code) >= Len(got[j].line_code)

-----------------------------------------------------------------------------
(***************************************************************************)
(* Part 6.  Account.merge (quiffen/core/account.py).  An optional field is *)
(* <<>> for None and <<v>> for the value v: a str is a sequence of         *)
(* characters, a Decimal an integer, an AccountType its name, a datetime   *)
(* a day number.  The transactions dict is a sequence of [key, list]       *)
(* items in insertion order.                                               *)
(***************************************************************************)

\* "x or y" where falsy is the value of x that counts as false, if it has one:
\* '' for a str, Decimal(0) for a Decimal.
PyOr(x, y, falsy) == IF x = <<>> \/ x = falsy THEN y ELSE x

\* The loop "for header in other.transactions" from item i on.
RECURSIVE ExtendTransactions(_, _, _)
ExtendTransactions(mine, theirs, i) ==
    IF i > Len(theirs) THEN mine
    ELSE LET Extended(with) ==
                 [k \in 1..Len(with) |->
                     IF with[k].key = theirs[i].key
                     THEN [with[k] EXCEPT !.list = @ \o theirs[i].list] ELSE with[k]]
         IN  ExtendTransactions(
                 Extended(IF \E k \in 1..Len(mine) : mine[k].key = theirs[i].key
                          THEN mine ELSE Append(mine, [key |-> theirs[i].key, list |-> <<>>])),
                 theirs, i + 1)

\* self.merge(other): what self is afterwards.  An AccountType and a datetime
\* are never false.
AccountMerge(self, other) ==
    [self EXCEPT !.desc = PyOr(@, other.desc, <<<<>>>>),
                 !.account_type = PyOr(@, other.account_type, <<>>),
                 !.credit_limit = PyOr(@, other.credit_limit, <<0>>),
                 !.balance = PyOr(@, other.balance, <<0>>),
                 !.date_at_balance = PyOr(@, other.date_at_balance, <<>>),
                 !.transactions = ExtendTransactions(@, other.transactions, 1)]

\* ---- The accounts of this part, and up to MaxMergeCalls merges of the
\* second into the first.
MaxMergeCalls == 2

SelfAccounts ==
    [name : {<<"X">>},
     desc : {<<>>, <<<<>>>>, <<<<"d">>>>},
     account_type : {<<>>, <<"Bank">>},
     credit_limit : {<<>>, <<0>>, <<5>>},
     balance : {<<>>, <<0>>, <<100>>},
     date_at_balance : {<<>>, <<1>>},
     transactions : {<<>>, <<[key |-> "Bank", list |-> <<1>>]>>,
                     <<[key |-> "Cash", list |-> <<1>>], [key |-> "Bank", list |-> <<2>>]>>}]

OtherAccounts ==
    [name : {<<"X">>},
     desc : {<<>>, <<<<"e">>>>},
     account_type : {<<>>, <<"Cash">>},
     credit_limit : {<<7>>},
     balance : {<<>>, <<200>>},
     date_at_balance : {<<>>, <<2>>},
     transactions : {<<>>, <<[key |-> "Bank", list |-> <<3, 4>>]>>,
                     <<[key |-> "Invst", list |-> <<5>>], [key |-> "Bank", list |-> <<3>>]>>}]

InitAccounts ==
    /\ InitCatVars
    /\ InitTxnVars
    /\ InitQifVars
    /\ InitFieldVars
    /\ InitDateVars
    /\ InitLaterVars
    /\ selfAccount \in {<<a>> : a \in SelfAccounts}
    /\ otherAccount \in {<<b>> : b \in OtherAccounts}
    /\ last = [op |-> "init", self |-> <<>>, other |-> <<>>]
    /\ calls = 0

\* selfAccount.merge(otherAccount): other is only read.
DoAccountMerge ==
    /\ calls < MaxMergeCalls
    /\ selfAccount' = <<AccountMerge(selfAccount[1], otherAccount[1])>>
    /\ otherAccount' = otherAccount
    /\ last' = [op |-> "merge", self |-> selfAccount[1], other |-> otherAccount[1]]
    /\ calls' = calls + 1
    /\ UNCHANGED <<catVars, txnVars, qifVars, fieldVars, dateVars, laterVars>>

NextAccounts == DoAccountMerge

SpecAccounts == InitAccounts /\ [][NextAccounts]_vars

\* The records of an account under a key, <<>> if it has no such key.
Bucket(account, key) ==
    LET at == {k \in 1..Len(account.transactions) : account.transactions[k].key = key}
    IN  IF at = {} THEN <<>> ELSE account.transactions[CHOOSE k \in at : TRUE].list

\* C16: after a.merge(b) each of desc, account_type, credit_limit, balance
\* and date_at_balance of a is a's old value if that was not None (zero and
\* the empty string included) and b's value otherwise; for every account type
\* the bucket of a is a's old records followed by b's records; b is as it
\* was.
C16_MergeFillsAbsentFields ==
    last.op = "merge" =>
        LET a == last.self
            b == last.other
            Filled(old, theirs) == IF old # <<>> THEN old ELSE theirs
        IN  /\ selfAccount[1].desc = Filled(a.desc, b.desc)
            /\ selfAccount[1].account_type = Filled(a.account_type, b.account_type)
            /\ selfAccount[1].credit_limit = Filled(a.credit_limit, b.credit_limit)
            /\ selfAccount[1].balance = Filled(a.balance, b.balance)
            /\ selfAccount[1].date_at_balance = Filled(a.date_at_balance, b.date_at_balance)
            /\ \A key \in {"Bank", "Cash", "Invst"} :
                   Bucket(selfAccount[1], key) = Bucket(a, key) \o Bucket(b, key)
            /\ otherAccount[1] = b

-----------------------------------------------------------------------------
(***************************************************************************)
(* Part 7.  utils.parse_date (quiffen/utils.py) with datetime.strftime and *)
(* datetime.strptime.  A date is a record [y, m, d]; a pattern is the      *)
(* sequence of its parts, where "d", "m", "Y", "y", "B" and "b" stand for  *)
(* the directives %d, %m, %Y, %y, %B and %b and any other part for itself. *)
(***************************************************************************)

day_first_patterns ==
    << <<"d", "/", "m", "/", "Y">>, <<"d", "-", "m", "-", "Y">>,
       <<"d", "/", "m", "/", "y">>, <<"d", "-", "m", "-", "y">>,
       <<"d", "0", "B", "0", "Y">>, <<"d", "0", "B", "0", "y">>,
       <<"d", "0", "b", "0", "Y">>, <<"d", "0", "b", "0", "y">> >>

month_first_patterns ==
    << <<"m", "/", "d", "/", "Y">>, <<"m", "-", "d", "-", "Y">>,
       <<"m", "/", "d", "/", "y">>, <<"m", "-", "d", "-", "y">>,
       <<"B", "0", "d", "0", "Y">>, <<"B", "0", "d", "0", "y">>,
       <<"b", "0", "d", "0", "Y">>, <<"b", "0", "d", "0", "y">> >>

year_first_patterns ==
    << <<"Y", "/", "m", "/", "d">>, <<"Y", "-", "m", "-", "d">>,
       <<"y", "/", "m", "/", "d">>, <<"y", "-", "m", "-", "d">>,
       <<"Y", "0", "B", "0", "d">>, <<"y", "0", "B", "0", "d">>,
       <<"Y", "0", "b", "0", "d">>, <<"y", "0", "b", "0", "d">> >>

\* %B in the C locale; %b is its first three letters.
MonthNames ==
    << <<"J", "a", "n", "u", "a", "r", "y">>, <<"F", "e", "b", "r", "u", "a", "r", "y">>,
       <<"M", "a", "r", "c", "h">>, <<"A", "p", "r", "i", "l">>, <<"M", "a", "y">>,
       <<"J", "u", "n", "e">>, <<"J", "u", "l", "y">>, <<"A", "u", "g", "u", "s", "t">>,
       <<"S", "e", "p", "t", "e", "m", "b", "e", "r">>, <<"O", "c", "t", "o", "b", "e", "r">>,
       <<"N", "o", "v", "e", "m", "b", "e", "r">>, <<"D", "e", "c", "e", "m", "b", "e", "r">> >>

\* The decimal digits of v, n of them.
Digits(v, n) == [i \in 1..n |-> DigitText[(v \div (10 ^ (n - i))) % 10]]

\* date.strftime(pattern)
Strftime(date, pattern) ==
    Concat([k \in 1..Len(pattern) |->
               CASE pattern[k] = "d" -> Digits(date.d, 2)
                 [] pattern[k] = "m" -> Digits(date.m, 2)
                 [] pattern[k] = "Y" -> Digits(date.y, 4)
                 [] pattern[k] = "y" -> Digits(date.y % 100, 2)
                 [] pattern[k] = "B" -> MonthNames[date.m]
                 [] pattern[k] = "b" -> SubSeq(MonthNames[date.m], 1, 3)
                 [] OTHER -> <<pattern[k]>>])

\* The value of the digits s[i..j], -1 if they are not all digits.
RECURSIVE Number(_, _, _)
Number(s, i, j) ==
    IF j < i THEN 0
    ELSE IF j > Len(s) \/ s[j] \notin DOMAIN DigitValue \/ Number(s, i, j - 1) = -1 THEN -1
    ELSE 10 * Number(s, i, j - 1) + DigitValue[s[j]]

\* The ways the regular expression of a directive matches s at i, in the
\* order the expression tries them: [len, val] for the length matched and the
\* value read.  %d is 3[0-1]|[1-2]\d|0[1-9]|[1-9], %m is 1[0-2]|0[1-9]|[1-9],
\* %y is \d\d, %Y is \d\d\d\d, %B and %b are the names.
Alternatives(s, i, part) ==
    LET Num(n, lo, hi) ==
            IF Number(s, i, i + n - 1) \in lo..hi
            THEN <<[len |-> n, val |-> Number(s, i, i + n - 1)]>> ELSE <<>>
        Name(n) ==
            LET at == {m \in 1..12 :
                          LET nm == IF n = 0 THEN MonthNames[m] ELSE SubSeq(MonthNames[m], 1, n)
                          IN  i + Len(nm) - 1 <= Len(s) /\ SubSeq(s, i, i + Len(nm) - 1) = nm}
            IN  IF at = {} THEN <<>>
                ELSE LET m == CHOOSE x \in at : TRUE
                     IN  <<[len |-> IF n = 0 THEN Len(MonthNames[m]) ELSE n, val |-> m]>>
    IN  CASE part = "d" -> Num(2, 1, 31) \o Num(1, 1, 9)
          [] part = "m" -> Num(2, 1, 12) \o Num(1, 1, 9)
          [] part = "y" -> Num(2, 0, 99)
          [] part = "Y" -> Num(4, 0, 9999)
          [] part = "B" -> Name(0)
          [] part = "b" -> Name(3)
          [] OTHER -> IF i <= Len(s) /\ s[i] = part THEN <<[len |-> 1, val |-> 0]>> ELSE <<>>

\* The first match of the pattern from part k on with s from i on, as the
\* values read so far extended, <<>> if there is none.  The whole of s must
\* match.
RECURSIVE Match(_, _, _, _, _), MatchAny(_, _, _, _, _, _, _)
Match(s, i, pattern, k, got) ==
    IF k > Len(pattern) THEN (IF i = Len(s) + 1 THEN <<got>> ELSE <<>>)
    ELSE MatchAny(s, i, pattern, k, got, Alternatives(s, i, pattern[k]), 1)

MatchAny(s, i, pattern, k, got, alts, n) ==
    IF n > Len(alts) THEN <<>>
    ELSE LET Or(r) == IF r # <<>> THEN r ELSE MatchAny(s, i, pattern, k, got, alts, n + 1)
         IN  Or(Match(s, i + alts[n].len, pattern, k + 1,
                      [got EXCEPT ![pattern[k]] = alts[n].val]))

\* The days of month m of year y.
DaysInMonth(y, m) ==
    IF m = 2 THEN (IF y % 4 = 0 /\ (y % 100 # 0 \/ y % 400 = 0) THEN 29 ELSE 28)
    ELSE IF m \in {4, 6, 9, 11} THEN 30 ELSE 31

\* datetime.strptime(s, pattern): <<the date>>, or <<>> for its ValueError.  A
\* two-digit year up to 68 is of this century, another one of the last.
Strptime(s, pattern) ==
    LET none == [x \in {"d", "m", "Y", "y", "B", "b", "/", "-", "0"} |-> -1]
        Date(r) ==
            IF r = <<>> THEN <<>>
            ELSE LET y == IF r[1]["Y"] # -1 THEN r[1]["Y"]
                          ELSE IF r[1]["y"] <= 68 THEN 2000 + r[1]["y"] ELSE 1900 + r[1]["y"]
                     m == IF r[1]["m"] # -1 THEN r[1]["m"]
                          ELSE IF r[1]["B"] # -1 THEN r[1]["B"] ELSE r[1]["b"]
                 IN  IF y < 1 \/ r[1]["d"] > DaysInMonth(y, m) THEN <<>>
                     ELSE <<[y |-> y, m |-> m, d |-> r[1]["d"]]>>
    IN  Date(Match(s, 1, pattern, 1, none))

\* parse_date(date_string, day_first): the loop over the patterns from k on;
\* <<the date>>, or <<>> for the ValueError after the loop.
RECURSIVE TryPatterns(_, _, _)
TryPatterns(s, patterns, k) ==
    IF k > Len(patterns) THEN <<>>
    ELSE LET Or(r) == IF r # <<>> THEN r ELSE TryPatterns(s, patterns, k + 1)
         IN  Or(Strptime(s, patterns[k]))

parse_date(date_string, day_first) ==
    LET Replaced(c) == IF c = " " THEN "0" ELSE IF c = "'" THEN "/" ELSE c
    IN  TryPatterns([i \in 1..Len(date_string) |-> Replaced(date_string[i])],
                    IF day_first
                    THEN day_first_patterns \o month_first_patterns \o year_first_patterns
                    ELSE month_first_patterns \o day_first_patterns \o year_first_patterns,
                    1)

\* ---- The calls of this part: a date of Dates is formatted with a pattern
\* and the text is given to parse_date.  The years are of the hundred years
\* that two digits stand for (1969 to 2068).
Dates == [y : {1999, 2002, 2022, 2040}, m : {1, 2, 12}, d : {2, 22, 28}]

InitDates ==
    /\ InitCatVars
    /\ InitTxnVars
    /\ InitQifVars
    /\ InitFieldVars
    /\ InitMergeVars
    /\ InitLaterVars
    /\ dateCall \in {<<c>> : c \in [date : Dates,
                                   pattern : SeqToSet(day_first_patterns \o month_first_patterns
                                                    \o year_first_patterns),
                                   day_first : BOOLEAN]}
    /\ dateParsed = <<>>
    /\ last = [op |-> "init"]
    /\ calls = 0

\* parse_date(date.strftime(pattern), day_first)
DoParseDate ==
    /\ dateParsed = <<>>
    /\ dateParsed' = <<parse_date(Strftime(dateCall[1].date, dateCall[1].pattern),
                                  dateCall[1].day_first)>>
    /\ last' = [op |-> "parse_date"]
    /\ calls' = calls + 1
    /\ UNCHANGED <<catVars, txnVars, qifVars, fieldVars, mergeVars, dateCall, laterVars>>

NextDates == DoParseDate

SpecDates == InitDates /\ [][NextDates]_vars

\* C19: for every date d and every pattern p of parse_date's patterns, with
\* day_first true for a day-first pattern, false for a month-first pattern
\* and either value for a year-first pattern, parse_date of d formatted with
\* p returns d.
C19_ParseDateRoundTrip ==
    (/\ dateParsed # <<>>
     /\ dateCall[1].pattern \in SeqToSet(day_first_patterns) => dateCall[1].day_first
     /\ dateCall[1].pattern \in SeqToSet(month_first_patterns) => ~dateCall[1].day_first)
        => dateParsed[1] = <<dateCall[1].date>>

-----------------------------------------------------------------------------
(***************************************************************************)
(* Part 8.  The loop of Transaction.from_list                              *)
(* (quiffen/core/transaction.py): one step per line of the record.  The    *)
(* locals of the call are one record: kwargs, splits (current_split is the *)
(* last of them, as only an "S" line assigns it), classes, the Category    *)
(* objects created so far (an arena: a sequence, an object is its index,   *)
(* 0 is None) and the name of the exception that ended the call.  A str is *)
(* the sequence of its characters, a Decimal an integer number of          *)
(* hundredths, an optional value <<>> or <<v>>.  What follows the loop     *)
(* (the percents of the splits, the construction) is the subject of        *)
(* Part 2.                                                                 *)
(***************************************************************************)
\* utils.parse_line_code_and_field_info(field): the first character and the
\* rest; an empty line has no line code.
LineCodeOf(field) == IF field = <<>> THEN "" ELSE field[1]

FieldInfoOf(field) == IF field = <<>> THEN <<>> ELSE Tail(field)

\* Decimal(text) for a text of digits; <<>> for decimal.InvalidOperation.
DecimalOf(text) ==
    IF text # <<>> /\ Number(text, 1, Len(text)) >= 0
    THEN <<100 * Number(text, 1, Len(text))>> ELSE <<>>

\* Category(name=name)
NewCategory(name) == [name |-> name, parent |-> 0, children |-> <<>>, hierarchy |-> name]

\* Category._refresh_hierarchy(self) from child i of n on.
RECURSIVE ArenaRefresh(_, _, _)
ArenaRefresh(A, n, i) ==
    IF i > Len(A[n].children) THEN A
    ELSE LET c == A[n].children[i]
             h == IF A[n].hierarchy # <<>> THEN A[n].hierarchy \o <<":">> \o A[c].name
                  ELSE A[c].name
         IN  ArenaRefresh(ArenaRefresh([A EXCEPT ![c].hierarchy = h], c, 1), n, i + 1)

\* Category.set_parent(self, parent) for a self that has no parent and a
\* parent that is another object, not below self: all that from_list calls
\* it with.
ArenaSetParent(A, self, p) ==
    ArenaRefresh([A EXCEPT ![self].parent = p, ![p].children = Append(@, self)], p, 1)

\* create_categories_from_hierarchy(hierarchy): the arena and the lowest
\* category of the hierarchy.
RECURSIVE CreateBelow(_, _, _, _)
CreateBelow(A, current_category, categories, i) ==
    IF i > Len(categories) THEN [arena |-> A, category |-> current_category]
    ELSE LET child == Len(A) + 1
         IN  CreateBelow(ArenaSetParent(Append(A, NewCategory(categories[i])), child,
                                        current_category),
                         child, categories, i + 1)

CreateCategoriesFromHierarchy(A, hier) ==
    LET categories == SplitOn(hier, ":")
    IN  CreateBelow(Append(A, NewCategory(categories[1])), Len(A) + 1, categories, 2)

\* Category.traverse_up(self)[-1]
RECURSIVE ArenaRoot(_, _)
ArenaRoot(A, n) == IF A[n].parent = 0 THEN n ELSE ArenaRoot(A, A[n].parent)

\* Category.merge(self, other) for an other that has no children, as every
\* category has that from_list hands to Class.add_category: the returned
\* bool.  Nothing is written: the loop over other.children has no turn.
RECURSIVE ArenaMerge(_, _, _)
ArenaMerge(A, self, other) ==
    IF A[other].name # A[self].name
    THEN \E i \in 1..Len(A[self].children) :
             /\ ArenaMerge(A, A[self].children[i], other)
    ELSE TRUE

\* Class.add_category(self, new_category): self.categories afterwards.
ArenaAddCategory(A, categories, new_category) ==
    IF \E i \in 1..Len(categories) : ArenaMerge(A, categories[i], new_category)
    THEN categories ELSE Append(categories, new_category)

\* Transaction._create_class_from_category_string(category_string, classes).
\* More than one "/" makes the unpacking of split("/") raise ValueError.
CreateClassFromCategoryString(category_string, classes) ==
    LET parts == SplitOn(category_string, "/")
    IN  IF ~Contains(<<"/">>, category_string)
        THEN [class_name |-> <<>>, field_info |-> category_string, classes |-> classes,
              raised |-> ""]
        ELSE IF Len(parts) # 2
        THEN [class_name |-> <<>>, field_info |-> category_string, classes |-> classes,
              raised |-> "ValueError"]
        ELSE [class_name |-> <<parts[2]>>, field_info |-> parts[1],
              classes |-> IF HasKey(classes, parts[2]) THEN classes
                          ELSE Put(classes, parts[2], [name |-> parts[2], categories |-> <<>>]),
              raised |-> ""]

\* The locals before the loop.
ReaderStart ==
    [kwargs |-> [date |-> <<>>, amount |-> <<>>, memo |-> <<>>, cleared |-> <<>>,
                 payee |-> <<>>, payee_address |-> <<>>, category |-> <<>>,
                 to_account |-> <<>>, check_number |-> <<>>],
     splits |-> <<>>, classes |-> <<>>, arena |-> <<>>, raised |-> ""]

\* Split(category=category)
NewSplit(category) ==
    [category |-> <<category>>, date |-> <<>>, amount |-> <<>>, memo |-> <<>>,
     cleared |-> <<>>, to_account |-> <<>>, check_number |-> <<>>, percent |-> <<>>,
     payee_address |-> <<>>]

\* current_split.attr = v
SetCurrent(st, attr, v) == [st EXCEPT !.splits[Len(st.splits)][attr] = v]

\* "if not splits: kwargs[attr] = v / elif current_split: current_split.attr = v"
Target(st, attr, v) ==
    IF st.splits = <<>> THEN [st EXCEPT !.kwargs[attr] = v] ELSE SetCurrent(st, attr, v)

\* The branch of line code "S".
SLine(st, field_info) ==
    LET Created(r, c) ==
            [st EXCEPT !.classes = r.classes, !.arena = c.arena,
                       !.splits = Append(@, NewSplit(c.category))]
        Named(r) ==
            IF r.raised # "" THEN Raise(st, r.raised)
            ELSE Created(r, CreateCategoriesFromHierarchy(st.arena, r.field_info))
    IN  Named(CreateClassFromCategoryString(field_info, st.classes))

\* The branch of line code "D"; from_list is called with its default
\* day_first=False.
DLine(st, field_info) ==
    LET Date(r) == IF r = <<>> THEN Raise(st, "ValueError") ELSE Target(st, "date", r)
    IN  Date(parse_date(field_info, FALSE))

\* The branch of line code "E".
ELine(st, field_info) ==
    IF st.splits = <<>> THEN st ELSE SetCurrent(st, "memo", <<field_info>>)

\* current_split.attr = Decimal(text)
SetCurrentDecimal(st, attr, text) ==
    IF DecimalOf(text) = <<>> THEN Raise(st, "InvalidOperation")
    ELSE SetCurrent(st, attr, DecimalOf(text))

\* The branch of line code "$".
DollarLine(st, field_info) ==
    IF st.splits = <<>> THEN st ELSE SetCurrentDecimal(st, "amount", Without(field_info, ","))

\* The branch of line code "%".
PercentLine(st, field_info) ==
    IF st.splits = <<>> THEN st
    ELSE SetCurrentDecimal(st, "percent", Without(SplitOn(field_info, " ")[1], "%"))

\* The branch of the line codes "T" and "U".
TLine(st, field_info) ==
    IF st.splits = <<>> THEN [st EXCEPT !.kwargs.amount = <<Without(field_info, ",")>>]
    ELSE SetCurrentDecimal(st, "amount", Without(field_info, ","))

\* A branch that would write the memo of the transaction whatever the splits.
MLineToTransaction(st, field_info) == [st EXCEPT !.kwargs.memo = <<field_info>>]

\* The branch of line code "M".
MLine(st, field_info) == Target(st, "memo", <<field_info>>)

\* The branch of line code "L".
LLine(st, field_info) ==
    LET Attached(st1, r, c) ==
            LET category_root == ArenaRoot(c.arena, c.category)
                st2 == IF st1.splits = <<>>
                       THEN [st1 EXCEPT
                                !.arena = IF st1.kwargs.category # <<>>
                                          THEN ArenaSetParent(c.arena, category_root,
                                                              st1.kwargs.category[1])
                                          ELSE c.arena,
                                !.kwargs.category = <<c.category>>]
                       ELSE [st1 EXCEPT
                                !.arena = ArenaSetParent(c.arena, category_root,
                                              st1.splits[Len(st1.splits)].category[1]),
                                !.splits[Len(st1.splits)].category = <<c.category>>]
            IN  IF r.class_name = <<>> THEN st2
                ELSE [st2 EXCEPT !.classes =
                         Put(@, r.class_name[1],
                             [Get(@, r.class_name[1]) EXCEPT !.categories =
                                  ArenaAddCategory(st2.arena, @, c.category)])]
        Named(r) ==
            IF r.raised # "" THEN Raise(st, r.raised)
            ELSE IF r.field_info # <<>> /\ r.field_info[1] = "["
            THEN Target([st EXCEPT !.classes = r.classes], "to_account",
                        <<SubSeq(r.field_info, 2, Len(r.field_info) - 1)>>)
            ELSE Attached([st EXCEPT !.classes = r.classes], r,
                          CreateCategoriesFromHierarchy(st.arena, r.field_info))
    IN  Named(CreateClassFromCategoryString(field_info, st.classes))

\* One turn of "for field in lst".  Transaction has no custom fields, and the
\* lines of the model carry the line codes of these branches only; any other
\* line code is unknown.
FromListLine(st, field) ==
    LET line_code  == LineCodeOf(field)
        field_info == FieldInfoOf(field)
    IN  CASE line_code = "" -> st
          [] line_code = "S" -> SLine(st, field_info)
          [] line_code = "D" -> DLine(st, field_info)
          [] line_code = "E" -> ELine(st, field_info)
          [] line_code = "$" -> DollarLine(st, field_info)
          [] line_code = "%" -> PercentLine(st, field_info)
          [] line_code \in {"T", "U"} -> TLine(st, field_info)
          [] line_code = "M" -> MLine(st, field_info)
          [] line_code = "C" -> Target(st, "cleared", <<field_info>>)
          [] line_code = "P" -> [st EXCEPT !.kwargs.payee = <<field_info>>]
          [] line_code = "A" -> Target(st, "payee_address", <<field_info>>)
          [] line_code = "L" -> LLine(st, field_info)
          [] line_code = "N" -> Target(st, "check_number", <<field_info>>)
          [] OTHER -> Raise(st, "ValueError")

\* ---- The records of this part: up to MaxLines lines.
MaxLines == 4

LineMenu ==
    {<<"D", "0", "1", "/", "0", "2", "/", "2", "0", "2", "2">>, <<"T", "8">>,
     <<"S", "A">>, <<"S", "A", ":", "B", "/", "K">>,
     <<"L", "A", "/", "K">>, <<"L", "[", "X", "]">>,
     <<"E", "e">>, <<"$", "2">>, <<"%", "5", "0", "%">>, <<"M", "m">>, <<"C", "c">>,
     <<"A", "a">>, <<"N", "7">>}

InitFromList ==
    /\ InitCatVars
    /\ InitTxnVars
    /\ InitQifVars
    /\ InitFieldVars
    /\ InitMergeVars
    /\ InitDateVars
    /\ InitClassVars
    /\ InitParserVars
    /\ fromListLines \in UNION {[1..k -> LineMenu] : k \in 0..MaxLines}
    /\ lineIndex = 0
    /\ reader = ReaderStart
    /\ last = [op |-> "init", code |-> ""]
    /\ calls = 0

\* The loop takes the next line.
DoReadLine ==
    /\ lineIndex < Len(fromListLines)
    /\ reader.raised = ""
    /\ reader' = FromListLine(reader, fromListLines[lineIndex + 1])
    /\ lineIndex' = lineIndex + 1
    /\ last' = [op |-> "from_list", code |-> LineCodeOf(fromListLines[lineIndex + 1])]
    /\ calls' = calls + 1
    /\ UNCHANGED <<fromListLines, catVars, txnVars, qifVars, fieldVars, mergeVars, dateVars,
                   classVars, parserVars>>

NextFromList == DoReadLine

SpecFromList == InitFromList /\ [][NextFromList]_vars

\* The categories of the tree that holds category n.
ArenaTree(A, n) == {m \in DOMAIN A : ArenaRoot(A, m) = ArenaRoot(A, n)}

\* The line the loop has just taken, in a step of DoReadLine.
LineTaken == fromListLines[lineIndex + 1]

\* C22: when from_list reads a line "S<hierarchy>/<ClassName>", the classes
\* mapping holds ClassName afterwards, and the categories of that Class
\* include the category of the split the line created.
C22_SplitLineRegistersCategoryUnderClass ==
    [][(/\ lineIndex' = lineIndex + 1
        /\ LineCodeOf(LineTaken) = "S"
        /\ Contains(<<"/">>, FieldInfoOf(LineTaken))
        /\ reader'.raised = "")
       => LET class_name == LastOf(SplitOn(FieldInfoOf(LineTaken), "/"))
              new_split  == reader'.splits[Len(reader'.splits)]
          IN  /\ HasKey(reader'.classes, class_name)
              /\ \E i \in DOMAIN Get(reader'.classes, class_name).categories :
                    reader'.arena[Get(reader'.classes, class_name).categories[i]].hierarchy
                        = reader'.arena[new_split.category[1]].hierarchy]_vars

\* C23: once an S line has been consumed, a later D, E, $, %, M, C, A, L or N
\* line changes only the most recently created split: the fields of the
\* transaction keep their values, no split is added, the earlier splits are
\* unchanged, and so is every category of the trees that the transaction and
\* the earlier splits refer to.
C23_SplitLinesOnlyChangeCurrentSplit ==
    [][(/\ lineIndex' = lineIndex + 1
        /\ LineCodeOf(LineTaken) \in {"D", "E", "$", "%", "M", "C", "A", "L", "N"}
        /\ reader.splits # <<>>)
       => /\ reader'.kwargs = reader.kwargs
          /\ Len(reader'.splits) = Len(reader.splits)
          /\ \A i \in 1..(Len(reader.splits) - 1) : reader'.splits[i] = reader.splits[i]
          /\ \A n \in DOMAIN reader.arena :
                (\/ /\ reader.kwargs.category # <<>>
                    /\ n \in ArenaTree(reader.arena, reader.kwargs.category[1])
                 \/ \E i \in 1..(Len(reader.splits) - 1) :
                        n \in ArenaTree(reader.arena, reader.splits[i].category[1]))
                => reader'.arena[n] = reader.arena[n]]_vars

\* An L line has moved the category of the second split below its old one,
\* in a transaction that has its own category and memo.
C23_Witness ==
    /\ last.op = "from_list"
    /\ last.code = "L"
    /\ reader.raised = ""
    /\ Len(reader.splits) = 2
    /\ reader.kwargs.category # <<>>
    /\ reader.arena[ArenaRoot(reader.arena, reader.splits[2].category[1])].children # <<>>

-----------------------------------------------------------------------------
(***************************************************************************)
(* Part 9.  Class (quiffen/core/class_type.py) on the Category objects of  *)
(* Part 1, and the descriptions of those objects.  A Class is a record     *)
(* [desc, categories]: desc is <<>> for None and <<text>> otherwise,       *)
(* categories the list of the Category objects it refers to.               *)
(***************************************************************************)
\* Class.add_category(self, new_category): the heap and self.categories
\* afterwards.
RECURSIVE ClassAddVisit(_, _, _, _)
ClassAddVisit(H, categories, new_category, i) ==
    IF H.err # "" THEN [heap |-> H, categories |-> categories]
    ELSE IF i > Len(categories)
         THEN [heap |-> H, categories |-> Append(categories, new_category)]
    ELSE LET Or(r) == IF r.ok \/ r.heap.err # ""
                      THEN [heap |-> r.heap, categories |-> categories]
                      ELSE ClassAddVisit(r.heap, categories, new_category, i + 1)
         IN  Or(Merge(H, categories[i], new_category))

ClassAddCategory(H, categories, new_category) == ClassAddVisit(H, categories, new_category, 1)

\* Class.merge(self, other): the heap and all Class objects afterwards.  The
\* loop reads other.categories by position while add_category may append to
\* self.categories, the same list when other is self.
RECURSIVE ClassMergeVisit(_, _, _, _, _)
ClassMergeVisit(H, co, self, other, i) ==
    IF H.err # "" \/ i > Len(co[other].categories) THEN [heap |-> H, objects |-> co]
    ELSE LET Added(r) == ClassMergeVisit(r.heap, [co EXCEPT ![self].categories = r.categories],
                                         self, other, i + 1)
         IN  Added(ClassAddCategory(H, co[self].categories, co[other].categories[i]))

ClassMerge(H, co, self, other) ==
    ClassMergeVisit(H, [co EXCEPT ![self].desc = PyOr(co[self].desc, co[other].desc, {<<>>, <<"">>})],
                    self, other, 1)

\* ---- The calls of this part.
MaxTreeCalls == 2
MaxClassCalls == 4

ClassCommit(r, co, c) ==
    /\ ~recursionError
    /\ calls < MaxClassCalls
    /\ \A n \in Nodes : Len(r.hierarchy[n]) <= MaxHier
    /\ parent' = r.parent
    /\ children' = r.children
    /\ hierarchy' = r.hierarchy
    /\ recursionError' = (r.err = "RecursionError")
    /\ classObjects' = co
    /\ last' = [c EXCEPT !.raised = r.err]
    /\ calls' = calls + 1
    /\ UNCHANGED <<container, description, txnVars, qifVars, fieldVars, mergeVars, dateVars,
                   readVars, parserVars>>

\* k.add_category(cat)
DoClassAddCategory ==
    \E k \in ClassNames, cat \in Nodes :
        LET Done(r) == ClassCommit(r.heap, [classObjects EXCEPT ![k].categories = r.categories],
                                   [op |-> "class_add_category", self |-> k, arg |-> cat,
                                    keep |-> FALSE, raised |-> ""])
        IN  Done(ClassAddCategory(CurHeap, classObjects[k].categories, cat))

\* k.merge(other)
DoClassMerge ==
    \E k \in ClassNames, other \in ClassNames :
        LET Done(r) == ClassCommit(r.heap, r.objects,
                                   [op |-> "class_merge", self |-> k, arg |-> other,
                                    keep |-> FALSE, raised |-> ""])
        IN  Done(ClassMerge(CurHeap, classObjects, k, other))

NextClass == DoAddChild(MaxTreeCalls) \/ DoClassAddCategory \/ DoClassMerge

SpecClass == InitCat /\ [][NextClass]_vars

\* C27: Class.add_category(cat) and Class.merge(other) leave the category
\* trees they are given as they were: cat, and every category of other, has
\* after the call the parent and the children it had before.
C27_ClassOnlyHoldsReferences ==
    [][LET given == IF last'.op = "class_add_category" THEN {last'.arg}
                    ELSE IF last'.op = "class_merge"
                         THEN SeqToSet(classObjects[last'.arg].categories)
                    ELSE {}
       IN  \A n \in given : parent'[n] = parent[n] /\ children'[n] = children[n]]_vars

\* ---- Categories that may have a description.  No method of Category
\* assigns desc: it is given at construction.
Descriptions == {<<>>, <<"d">>, <<"e">>}

InitDescribed ==
    /\ InitCatVars
    /\ InitTxnVars
    /\ InitQifVars
    /\ InitFieldVars
    /\ InitMergeVars
    /\ InitDateVars
    /\ InitReadVars
    /\ InitParserVars
    /\ InitClassObjects
    /\ description \in [Nodes -> Descriptions]
    /\ last = [op |-> "init", self |-> None, arg |-> None, keep |-> FALSE, raised |-> ""]
    /\ calls = 0

NextDescribed == DoAddChild(MaxTreeCalls) \/ DoMerge

SpecDescribed == InitDescribed /\ [][NextDescribed]_vars

\* C24: dst.merge(src) on two categories of the same name gives dst the
\* description of src when dst has none, and leaves the description of dst
\* as it was otherwise.
C24_MergeFillsDescription ==
    [][(/\ last'.op = "merge"
        /\ last'.raised = ""
        /\ CatName[last'.self] = CatName[last'.arg])
       => description'[last'.self] =
              IF description[last'.self] = <<>> THEN description[last'.arg]
              ELSE description[last'.self]]_vars

-----------------------------------------------------------------------------
(***************************************************************************)
(* Part 10.  ParserState (quiffen/core/parser_state.py).  An exception is  *)
(* the name of its class together with the number of the line it is about. *)
(***************************************************************************)
MaxHandled == 3

Exceptions == [type : {"ValueError", "KeyError"}, line : 1..2]

\* A handle_exception that collects whatever the mode.
CollectAlways(is_lenient, errs, ex) == [errors |-> Append(errs, ex), raised |-> <<>>]

\* ParserState.handle_exception(self, ex): self.errors afterwards and the
\* exception that leaves the call, <<>> when it returns.
HandleException(is_lenient, errs, ex) ==
    IF is_lenient THEN [errors |-> Append(errs, ex), raised |-> <<>>]
    ELSE [errors |-> errs, raised |-> <<ex>>]

\* ParserState(lenient=b)
InitParser ==
    /\ InitCatVars
    /\ InitTxnVars
    /\ InitQifVars
    /\ InitFieldVars
    /\ InitMergeVars
    /\ InitDateVars
    /\ InitReadVars
    /\ InitClassVars
    /\ lenient \in BOOLEAN
    /\ errors = <<>>
    /\ handled = <<>>
    /\ last = [op |-> "init", arg |-> <<>>, raised |-> <<>>]
    /\ calls = 0

\* state.handle_exception(ex); the caller goes on after an exception that the
\* call raised.
DoHandleException ==
    \E ex \in Exceptions :
        LET Done(r) ==
                /\ errors' = r.errors
                /\ last' = [op |-> "handle_exception", arg |-> <<ex>>, raised |-> r.raised]
        IN  /\ calls < MaxHandled
            /\ Done(HandleException(lenient, errors, ex))
            /\ handled' = Append(handled, ex)
            /\ calls' = calls + 1
            /\ UNCHANGED <<lenient, catVars, txnVars, qifVars, fieldVars, mergeVars, dateVars,
                           readVars, classVars>>

NextParser == DoHandleException

SpecParser == InitParser /\ [][NextParser]_vars

\* C29: handle_exception(ex) in lenient mode appends ex to the errors and
\* returns; in strict mode it raises ex and leaves the errors as they were.
\* So after any calls the errors are empty in strict mode and, in lenient
\* mode, the handled exceptions in the order they came.
C29_HandleException ==
    /\ errors = IF lenient THEN handled ELSE <<>>
    /\ last.op = "handle_exception"
           => last.raised = IF lenient THEN <<>> ELSE last.arg

\* Three exceptions have been handled in lenient mode, two of them different.
C29_Witness ==
    /\ lenient
    /\ Len(handled) = 3
    /\ handled[1] # handled[2]
    /\ last.op = "handle_exception"

=============================================================================
